---- MODULE Spec2Model ----
(***************************************************************************)
(* A model of the request-routing core of the misaka edge server:          *)
(*   - Util.compose, the middleware chain (src/modules/util/util.ts)       *)
(*   - SiteRouter, the host-level dispatch (src/modules/router/router.ts)  *)
(*   - PathRouter, the path-level stacks, rewrites and redirects           *)
(*   - UpgradableResponse, the response of an upgrade request              *)
(*     (src/src/lib/stat.ts)                                               *)
(*   - proxy and wsforward, the reverse proxy and its WebSocket bridge     *)
(* Each component has its own variables and its own specification; a       *)
(* specification keeps the variables of the other components idle.         *)
(***************************************************************************)
EXTENDS Integers, Sequences, FiniteSets, TLC

VARIABLES
    middlewares,  \* compose: the list handed to Util.compose (behaviour kinds)
    pending,      \* compose: the invocations of the composed middleware not yet begun
    index,        \* compose: `let index` of each invocation (by slot)
    frames,       \* compose: per invocation, the activations of async functions
    log,          \* compose: per invocation, the order of enter/resume/exit
    sites,        \* SiteRouter.sites: the patterns in insertion order, each with its PathRouter
    sphase,       \* SiteRouter: "build", "ready", "inRouter", "inNext", "done"
    sctx,         \* SiteRouter: the request context (hostname, site)
    invoked,      \* SiteRouter: the PathRouters whose process was called, in order
    souter,       \* SiteRouter: how often the outer continuation was invoked
    router,       \* PathRouter.router: the layers installed in the underlying router
    stacks,       \* PathRouter.stacks: path -> the stack of that path
    calls,        \* PathRouter: the addModule calls made so far (path, module)
    pphase,       \* PathRouter: "build", "down", "up", "done"
    pctx,         \* PathRouter: the request context (path, status, Location, handler)
    entry,        \* PathRouter: ctx.path when the caller handed the request over
    chain,        \* PathRouter: the middlewares matched for the request, in order
    seen,         \* PathRouter: ctx.path as each entered middleware found it
    nexts,        \* PathRouter: how often each middleware of the chain called next
    pouter,       \* PathRouter: how often the outer continuation was invoked
    resp,         \* UpgradableResponse: the fields of the response
    socket,       \* UpgradableResponse: what was put on the socket, in order
    stream,       \* UpgradableResponse: the state of the Writable it extends
    wsock,        \* UpgradableResponse: the client WebSocket and its handshakes
    call,         \* UpgradableResponse: the last method call and what it threw
    pxconf,       \* proxy: the options of the route (websocket)
    pxctx,        \* proxy: the request context
    pxphase,      \* proxy: "idle", "ws", "http", "next", "done", "threw"
    session,      \* wsforward: the promise it returns, and the error it rejected with
    upstream,     \* wsforward: req, the WebSocket to the upstream
    client,       \* wsforward: usr, the WebSocket of the client
    upg,          \* wsforward: the calls of upgrade() and the promise of the call
    bridged,      \* wsforward: "none", or how the forwarder found the upstream
    stat,         \* wsforward: stat.bytes
    pxnexts,      \* proxy: how often the handler called next
    ureq,         \* request: the HTTP request to the upstream and its promise
    stconf,       \* static: the options of the static module
    stctx,        \* static: the Koa context of the request
    stphase,      \* static: where the handler stands
    stsend,       \* send: its argument, its local path, its result or error
    stfs,         \* send: the files it asked the file system about, in order
    stnexts,      \* static: how often the handler called next
    stseen,       \* static: ctx.path as each call of next found it
    stsize,       \* static: the size of the files of the file system
    stlog,        \* static: the responses to the earlier requests of the client
    xconf,        \* ExecutionContext: its base and the name of the app it was given to
    xrouter,      \* ExecutionContext: the routes it installed in its PathRouter
    xctx,         \* ExecutionContext: the request context (method, path, handler)
    xphase,       \* ExecutionContext: "register", "down", "up", "done"
    xchain,       \* ExecutionContext: the routes matched for the request, in order
    xruns,        \* ExecutionContext: what each middleware entered found and did
    xouter,       \* ExecutionContext: ctx.path as the outer continuation found it
    sconf,        \* parseSiteConfig: the route entries of the site's config
    parsed,       \* parseSiteConfig: how many of the entries the loop has taken
    count,        \* Statistics.count
    last1min,     \* Statistics.last1min
    last5min,     \* Statistics.last5min
    last15min,    \* Statistics.last15min
    clock         \* Statistics: Date.now() of the latest record()

composeVars == <<middlewares, pending, index, frames, log>>
siteVars == <<sites, sphase, sctx, invoked, souter>>
pathVars == <<router, stacks, calls, pphase, pctx, entry, chain, seen, nexts, pouter>>
respVars == <<resp, socket, stream, wsock, call>>
proxyVars == <<pxconf, pxctx, pxphase, session, upstream, client, upg, bridged, stat,
               pxnexts, ureq>>
staticVars == <<stconf, stctx, stphase, stsend, stfs, stnexts, stseen, stsize, stlog>>
execVars == <<xconf, xrouter, xctx, xphase, xchain, xruns, xouter>>
configVars == <<sconf, parsed>>
statVars == <<count, last1min, last5min, last15min, clock>>

\* what the actions of one component leave alone
notCompose == <<siteVars, pathVars, respVars, proxyVars, staticVars,
                  execVars, configVars, statVars>>
notSite == <<composeVars, pathVars, respVars, proxyVars, staticVars,
               execVars, configVars, statVars>>
notPath == <<composeVars, siteVars, respVars, proxyVars, staticVars,
               execVars, configVars, statVars>>
notResp == <<composeVars, siteVars, pathVars, proxyVars, staticVars,
               execVars, configVars, statVars>>
notProxy == <<composeVars, siteVars, pathVars, respVars, staticVars,
                execVars, configVars, statVars>>
notStatic == <<composeVars, siteVars, pathVars, respVars, proxyVars,
                 execVars, configVars, statVars>>
notExec == <<composeVars, siteVars, pathVars, respVars, proxyVars, staticVars,
             configVars, statVars>>
notConfig == <<composeVars, siteVars, respVars, proxyVars, staticVars, execVars, statVars>>
notStat == <<composeVars, siteVars, pathVars, respVars, proxyVars, staticVars,
             execVars, configVars>>

vars == <<middlewares, pending, index, frames, log,
          sites, sphase, sctx, invoked, souter,
          router, stacks, calls, pphase, pctx, entry, chain, seen, nexts, pouter,
          resp, socket, stream, wsock, call,
          pxconf, pxctx, pxphase, session, upstream, client, upg, bridged, stat, pxnexts,
          ureq,
          stconf, stctx, stphase, stsend, stfs, stnexts, stseen, stsize, stlog,
          xconf, xrouter, xctx, xphase, xchain, xruns, xouter,
          sconf, parsed,
          count, last1min, last5min, last15min, clock>>

(***************************************************************************)
(* Bounds                                                                  *)
(***************************************************************************)
\* longest list given to Util.compose when one invocation runs
MaxLen == 3
\* longest list given to Util.compose when two invocations run interleaved
ConcLen == 3
\* most host patterns registered in a SiteRouter
MaxSites == 3
\* most addModule calls on a PathRouter
MaxCalls == 3
\* most rewrite, redirect and module installations on a PathRouter
MaxRules == 2
\* most method calls made on an UpgradableResponse
MaxOps == 4
\* most frames received by the two peers of a WebSocket bridge
MaxMsgs == 3
\* most 'data' chunks of an upstream HTTP response
MaxData == 2
\* most segments of a request path given to the static handler
MaxSegs == 2
\* largest size of a file the static handler serves, in bytes
MaxSize == 3
\* most requests of one client to the static handler
MaxRequests == 2
\* most routes a module installs through its ExecutionContext
MaxRoutes == 2
\* most rewrites one path entry of a site's config declares
MaxRewrites == 2
\* most calls of Statistics.record
MaxRecords == 4

(***************************************************************************)
(* Util.compose                                                            *)
(***************************************************************************)
\* What a middleware does with its `next`:
\*   skip : returns without calling next
\*   once : await next()
\*   seq2 : await next(); await next()      (second call after the first returned)
\*   par2 : p = next(); q = next(); await p; await q   (second call before)
Kinds == {"skip", "once", "seq2", "par2"}

Prog(kind) ==
    CASE kind = "skip" -> <<>>
      [] kind = "once" -> <<"call", "await">>
      [] kind = "seq2" -> <<"call", "await", "call", "await">>
      [] kind = "par2" -> <<"call", "call", "await", "await">>

Requests == {1, 2}

\* The composed middleware itself is activation -1: `await dispatch(0)`.
RootMw == 0 - 1

\* the `index` variable an invocation uses: declared inside the returned
\* closure, so every invocation has its own
IndexSlotShared(r) == 1
IndexSlot(r) == r

\* `if (i <= index) throw new Error('next() called multiple times')`
DispatchGuardOffByOne(i, idx) == i < idx
DispatchGuard(i, idx) == i <= idx

\* `const route = middlewares[i]; if (route)`
HasRoute(i) == i >= 0 /\ i < Len(middlewares)

\* `else if (i === middlewares.length) await next()`
IsEndNever(i) == i = Len(middlewares) + 1
IsEnd(i) == i = Len(middlewares)

\* `await route(...)`: the awaiting function resumes once the awaited one settled
SettledNoAwait(st) == TRUE
Settled(st) == st \in {"ok", "err"}

\* the code an activation runs: the composed middleware, a middleware of the
\* list, or the outer continuation (opaque: it returns)
FrameProg(mw) ==
    IF mw = RootMw THEN <<"call", "await">>
    ELSE IF HasRoute(mw) THEN Prog(middlewares[mw + 1])
    ELSE <<>>

NewFrame(mw) == [mw |-> mw, pc |-> 0, kids |-> <<>>, st |-> "run"]

Rejected == [tag |-> "rejected", id |-> 0]
Resolved == [tag |-> "resolved", id |-> 0]
Pending(id) == [tag |-> "frame", id |-> id]

\* number of `await`s among the first pc operations of a program
RECURSIVE Awaits(_, _)
Awaits(prog, pc) ==
    IF pc = 0 THEN 0
    ELSE Awaits(prog, pc - 1) + (IF prog[pc] = "await" THEN 1 ELSE 0)

AtOp(r, f, op) ==
    /\ r \in Requests
    /\ f \in 1..Len(frames[r])
    /\ frames[r][f].st = "run"
    /\ frames[r][f].pc < Len(FrameProg(frames[r][f].mw))
    /\ FrameProg(frames[r][f].mw)[frames[r][f].pc + 1] = op

\* `return async (ctx, next) => { let index = -1; ... await dispatch(0) }`
Start(r) ==
    /\ r \in pending
    /\ pending' = pending \ {r}
    /\ index' = [index EXCEPT ![IndexSlot(r)] = 0 - 1]
    /\ frames' = [frames EXCEPT ![r] = <<NewFrame(RootMw)>>]
    /\ UNCHANGED <<middlewares, log>>
    /\ UNCHANGED notCompose

\* activation f calls its `next`, that is dispatch(i) with i = mw + 1
Call(r, f) ==
    /\ AtOp(r, f, "call")
    /\ LET fr == frames[r][f]
           i == fr.mw + 1
           s == IndexSlot(r)
           new == Len(frames[r]) + 1
       IN IF DispatchGuard(i, index[s])
          THEN /\ frames' = [frames EXCEPT ![r][f].kids = Append(@, Rejected),
                                           ![r][f].pc = @ + 1]
               /\ UNCHANGED <<index, log>>
          ELSE /\ index' = [index EXCEPT ![s] = i]
               /\ IF HasRoute(i) \/ IsEnd(i)
                  THEN /\ frames' = [frames EXCEPT ![r] =
                              Append([@ EXCEPT ![f].kids = Append(@, Pending(new)),
                                               ![f].pc = @ + 1],
                                     NewFrame(i))]
                       /\ log' = [log EXCEPT ![r] = Append(@, <<"enter", i>>)]
                  ELSE /\ frames' = [frames EXCEPT ![r][f].kids = Append(@, Resolved),
                                                   ![r][f].pc = @ + 1]
                       /\ UNCHANGED log
    /\ UNCHANGED <<middlewares, pending>>
    /\ UNCHANGED notCompose

\* activation f awaits the promise of its k-th call
Await(r, f) ==
    /\ AtOp(r, f, "await")
    /\ LET fr == frames[r][f]
           k == Awaits(FrameProg(fr.mw), fr.pc) + 1
           kid == fr.kids[k]
           failed == \/ kid.tag = "rejected"
                     \/ kid.tag = "frame" /\ frames[r][kid.id].st = "err"
       IN /\ kid.tag = "frame" => Settled(frames[r][kid.id].st)
          /\ IF failed
             THEN /\ frames' = [frames EXCEPT ![r][f].st = "err"]
                  /\ log' = [log EXCEPT ![r] = Append(@, <<"throw", fr.mw>>)]
             ELSE /\ frames' = [frames EXCEPT ![r][f].pc = @ + 1]
                  /\ log' = [log EXCEPT ![r] = Append(@, <<"resume", fr.mw>>)]
    /\ UNCHANGED <<middlewares, pending, index>>
    /\ UNCHANGED notCompose

\* activation f reaches the end of its function
Return(r, f) ==
    /\ r \in Requests
    /\ f \in 1..Len(frames[r])
    /\ frames[r][f].st = "run"
    /\ frames[r][f].pc = Len(FrameProg(frames[r][f].mw))
    /\ frames' = [frames EXCEPT ![r][f].st = "ok"]
    /\ log' = [log EXCEPT ![r] = Append(@, <<"exit", frames[r][f].mw>>)]
    /\ UNCHANGED <<middlewares, pending, index>>
    /\ UNCHANGED notCompose

ComposeNext ==
    \/ \E r \in Requests : Start(r)
    \/ \E r \in Requests : \E f \in 1..Len(frames[r]) : Call(r, f)
    \/ \E r \in Requests : \E f \in 1..Len(frames[r]) : Await(r, f)
    \/ \E r \in Requests : \E f \in 1..Len(frames[r]) : Return(r, f)

RECURSIVE SeqsUpTo(_, _)
SeqsUpTo(S, n) ==
    IF n = 0 THEN {<<>>}
    ELSE LET shorter == SeqsUpTo(S, n - 1)
         IN shorter \cup {Append(s, x) : s \in shorter, x \in S}

ComposeInit(n, rs) ==
    /\ middlewares \in SeqsUpTo(Kinds, n)
    /\ pending = rs
    /\ index = [s \in Requests |-> 0 - 1]
    /\ frames = [r \in Requests |-> <<>>]
    /\ log = [r \in Requests |-> <<>>]

\* no composed stack under observation
ComposeIdle == ComposeInit(0, {})

(***************************************************************************)
(* What one invocation has done so far                                     *)
(***************************************************************************)
\* how often middleware j was entered (j = Len(middlewares): the outer `next`)
Entered(r, j) == Cardinality({f \in 1..Len(frames[r]) : frames[r][f].mw = j})

RECURSIVE CountRejected(_)
CountRejected(kids) ==
    IF kids = <<>> THEN 0
    ELSE (IF Head(kids) = Rejected THEN 1 ELSE 0) + CountRejected(Tail(kids))

RECURSIVE SumRejected(_, _, _)
SumRejected(r, i, f) ==
    IF f = 0 THEN 0
    ELSE SumRejected(r, i, f - 1)
         + (IF frames[r][f].mw = i THEN CountRejected(frames[r][f].kids) ELSE 0)

\* how many `next` calls of middleware i failed with 'next() called multiple times'
Errors(r, i) == SumRejected(r, i, Len(frames[r]))

Quiescent(r) ==
    /\ frames[r] # <<>>
    /\ \A f \in 1..Len(frames[r]) : frames[r][f].st \in {"ok", "err"}

AllOnce == \A i \in 1..Len(middlewares) : middlewares[i] = "once"
NoSkip == \A i \in 1..Len(middlewares) : middlewares[i] # "skip"

IsPrefix(s, t) == Len(s) <= Len(t) /\ SubSeq(t, 1, Len(s)) = s

(***************************************************************************)
(* C1. If a middleware calls its `next` a second time (before or after the *)
(* first call returned), the second call fails with 'next() called         *)
(* multiple times', and the next middleware, every later middleware and    *)
(* the outer continuation are each entered at most once.                   *)
(***************************************************************************)
C1_SingleShot ==
    \A r \in Requests : \A f \in 1..Len(frames[r]) :
        Len(frames[r][f].kids) >= 2 =>
            /\ \A k \in 2..Len(frames[r][f].kids) : frames[r][f].kids[k] = Rejected
            /\ \A j \in (frames[r][f].mw + 1)..Len(middlewares) : Entered(r, j) <= 1

\* a middleware has called next twice while its first call is still running
\* below it, and the second call was refused
C1_Witness ==
    \E f \in 1..Len(frames[1]) :
        /\ frames[1][f].mw >= 0
        /\ Len(frames[1][f].kids) = 2
        /\ frames[1][f].kids[1].tag = "frame"
        /\ frames[1][frames[1][f].kids[1].id].st = "run"
        /\ frames[1][f].kids[2] = Rejected
        /\ Entered(1, frames[1][f].mw + 1) = 1

(***************************************************************************)
(* C2. When every middleware awaits next exactly once, the middlewares are *)
(* entered in declaration order and resume in exactly the reverse order,   *)
(* m(i+1) having finished before m(i) resumes.                             *)
(***************************************************************************)
RECURSIVE DownLog(_)
DownLog(n) == IF n < 0 THEN <<>> ELSE Append(DownLog(n - 1), <<"enter", n>>)

RECURSIVE UpLog(_, _)
UpLog(i, n) ==
    IF i > n THEN <<>>
    ELSE UpLog(i + 1, n)
         \o (IF i = n THEN <<>> ELSE << <<"resume", i>> >>)
         \o << <<"exit", i>> >>

\* enter 0, ..., enter n-1, enter the outer continuation n, exit n,
\* resume n-1, exit n-1, ..., resume 0, exit 0, then the composed middleware
ExpectedLog(n) == DownLog(n) \o UpLog(RootMw, n)

C2_Order ==
    \A r \in Requests :
        AllOnce => IsPrefix(log[r], ExpectedLog(Len(middlewares)))

C2_Witness ==
    /\ AllOnce
    /\ Len(middlewares) >= 2
    /\ log[1] = ExpectedLog(Len(middlewares))

(***************************************************************************)
(* C3. If every middleware calls next, the outer continuation is invoked   *)
(* exactly once and only after the last middleware called next (for the    *)
(* empty list at once); if some middleware returns without calling next,   *)
(* no later middleware and not the outer continuation is invoked.          *)
(***************************************************************************)
C3_Outer ==
    \A r \in Requests :
        LET n == Len(middlewares) IN
        /\ Entered(r, n) <= 1
        /\ (NoSkip /\ Quiescent(r)) => Entered(r, n) = 1
        /\ Entered(r, n) = 1 =>
              \E f \in 1..Len(frames[r]) :
                  frames[r][f].mw = n - 1 /\ frames[r][f].kids # <<>>
        /\ (n = 0 /\ frames[r] # <<>> /\ frames[r][1].pc >= 1) => Entered(r, 0) = 1
        /\ \A i \in 0..(n - 1) :
              middlewares[i + 1] = "skip" => \A j \in (i + 1)..n : Entered(r, j) = 0

C3_Witness ==
    /\ AllOnce
    /\ Len(middlewares) >= 2
    /\ Quiescent(1)
    /\ Entered(1, Len(middlewares)) = 1

(***************************************************************************)
(* C4. Two invocations of the same composed stack that run interleaved do  *)
(* not affect each other's index: neither gets a 'next() called multiple   *)
(* times' error it would not get alone, and each enters every middleware   *)
(* as often as it would alone.                                             *)
(***************************************************************************)
\* what one invocation running alone does: middleware j is entered once when
\* every middleware before it calls next
AloneEntered(j) ==
    IF \A i \in 1..j : middlewares[i] # "skip" THEN 1 ELSE 0

\* the activation of middleware j throws: it called next twice, or passes on
\* the failure of the middleware below it
RECURSIVE AloneFails(_)
AloneFails(j) ==
    /\ j < Len(middlewares)
    /\ \/ middlewares[j + 1] \in {"seq2", "par2"}
       \/ middlewares[j + 1] = "once" /\ AloneFails(j + 1)

\* middleware i gets the error for its second call when it reaches that call
AloneErrors(i) ==
    IF /\ AloneEntered(i) = 1
       /\ \/ middlewares[i + 1] = "par2"
          \/ middlewares[i + 1] = "seq2" /\ ~AloneFails(i + 1)
    THEN 1 ELSE 0

C4_Independent ==
    \A r \in Requests :
        LET n == Len(middlewares) IN
        /\ \A j \in 0..n : Entered(r, j) <= AloneEntered(j)
        /\ \A i \in 0..(n - 1) : Errors(r, i) <= AloneErrors(i)
        /\ Errors(r, RootMw) = 0
        /\ Quiescent(r) =>
              /\ \A j \in 0..n : Entered(r, j) = AloneEntered(j)
              /\ \A i \in 0..(n - 1) : Errors(r, i) = AloneErrors(i)

\* both invocations are under way at the same time, one of them already past
\* a refused second call
C4_Witness ==
    /\ \A r \in Requests :
          /\ Len(frames[r]) >= 3
          /\ frames[r][1].st = "run"
    /\ \E i \in 0..(Len(middlewares) - 1) : Errors(1, i) = 1
    /\ ~Quiescent(2)

(***************************************************************************)
(* SiteRouter                                                              *)
(***************************************************************************)
\* SiteLike = string | string[] | RegExp.  A regular expression is given by
\* the hostnames its test() accepts.
StrSite(h) == [kind |-> "str", v |-> <<h>>]
ListSite(hs) == [kind |-> "list", v |-> hs]
ReSite(hs) == [kind |-> "re", v |-> hs]
\* ctx.site before any pattern was recorded
NoSite == [kind |-> "unset", v |-> <<>>]

\* ctx.hostname as the server receives it (ASCII form)
Hostnames == {"a.com", "b.com", "c.com", "xn--tda.com"}

\* url.domainToUnicode: punycode labels are decoded, other names are kept
\* ("u:.com" stands for the decoded form of xn--tda.com)
domainToUnicode(h) == IF h = "xn--tda.com" THEN "u:.com" ELSE h

SitePatterns ==
    { StrSite("a.com"), StrSite("*"), StrSite("u:.com"), StrSite("xn--tda.com"),
      ListSite(<<"b.com", "u:.com">>), ListSite(<<"*">>),
      ReSite(<<"a.com", "b.com">>) }

InSeq(x, seq) == \E k \in 1..Len(seq) : seq[k] = x

\* SiteRouter.match(pattern, hostname)
match(pattern, hostname) ==
    IF pattern = StrSite("*") THEN TRUE
    ELSE IF pattern.kind = "list" THEN InSeq(hostname, pattern.v)
    ELSE IF pattern.kind = "re" THEN InSeq(hostname, pattern.v)
    ELSE pattern = StrSite(hostname)

\* `for (const [site, pathRouter] of this.sites)`: the entry at or after k
\* whose pattern matches, 0 when the loop runs to its end
RECURSIVE LoopFrom(_, _)
LoopFrom(k, hostname) ==
    IF k > Len(sites) THEN 0
    ELSE IF match(sites[k], domainToUnicode(hostname)) THEN k
    ELSE LoopFrom(k + 1, hostname)

\* `return await pathRouter.process(ctx, next)`: the loop ends with the
\* first delegation
ReturnsAfterDelegateNot == FALSE
ReturnsAfterDelegate == TRUE

\* `await next()` after the loop
FallThroughNone(n) == n
FallThrough(n) == n + 1

\* SiteRouter.get(site): the registered PathRouter, or a new one appended.
\* Map keys: a string is found by value, an array or RegExp only by identity,
\* and every config entry makes a new array or RegExp.
SiteGet(site) ==
    /\ sphase = "build"
    /\ Len(sites) < MaxSites
    /\ ~(site.kind = "str" /\ InSeq(site, sites))
    /\ sites' = Append(sites, site)
    /\ UNCHANGED <<sphase, sctx, invoked, souter>>
    /\ UNCHANGED notSite

\* the router is built; a request for hostname h arrives
SiteRequest(h) ==
    /\ sphase = "build"
    /\ sphase' = "ready"
    /\ sctx' = [hostname |-> h, site |-> NoSite, from |-> 1]
    /\ UNCHANGED <<sites, invoked, souter>>
    /\ UNCHANGED notSite

\* SiteRouter.process up to its await: the loop over the sites
SiteProcess ==
    /\ sphase = "ready"
    /\ LET k == LoopFrom(sctx.from, sctx.hostname)
       IN IF k > 0
          THEN /\ sctx' = [sctx EXCEPT !.site = sites[k], !.from = k + 1]
               /\ invoked' = Append(invoked, k)
               /\ sphase' = "inRouter"
               /\ UNCHANGED souter
          ELSE /\ souter' = FallThrough(souter)
               /\ sphase' = "inNext"
               /\ UNCHANGED <<sctx, invoked>>
    /\ UNCHANGED sites
    /\ UNCHANGED notSite

\* pathRouter.process(ctx, next) returns: its router had no route for the
\* path and called next, or a route handled the request with or without next
PathRouterReturns(callsNext) ==
    /\ sphase = "inRouter"
    /\ souter' = IF callsNext THEN souter + 1 ELSE souter
    /\ sphase' = IF ReturnsAfterDelegate THEN "done" ELSE "ready"
    /\ UNCHANGED <<sites, sctx, invoked>>
    /\ UNCHANGED notSite

\* the outer continuation returns
SiteNextReturns ==
    /\ sphase = "inNext"
    /\ sphase' = "done"
    /\ UNCHANGED <<sites, sctx, invoked, souter>>
    /\ UNCHANGED notSite

SiteNext ==
    \/ \E site \in SitePatterns : SiteGet(site)
    \/ \E h \in Hostnames : SiteRequest(h)
    \/ SiteProcess
    \/ \E callsNext \in BOOLEAN : PathRouterReturns(callsNext)
    \/ SiteNextReturns

SiteInit ==
    /\ sites = <<>>
    /\ sphase = "build"
    /\ sctx = [hostname |-> "", site |-> NoSite, from |-> 1]
    /\ invoked = <<>>
    /\ souter = 0

\* the patterns seen the way the host-pattern variant describes them:
\* the wildcard, an exact string, a member of a list, a regex test
Matches(pattern, hostname) ==
    \/ pattern.kind = "str" /\ pattern.v = <<"*">>
    \/ pattern.kind = "str" /\ pattern.v = <<hostname>>
    \/ pattern.kind = "list" /\ \E k \in 1..Len(pattern.v) : pattern.v[k] = hostname
    \/ pattern.kind = "re" /\ \E k \in 1..Len(pattern.v) : pattern.v[k] = hostname

SomeMatch == \E k \in 1..Len(sites) : Matches(sites[k], domainToUnicode(sctx.hostname))

(***************************************************************************)
(* C5. SiteRouter.process delegates to the path router of the lowest-index *)
(* pattern that matches the hostname, sets ctx.site to that pattern, and   *)
(* never invokes the path router of a later pattern, also when the chosen  *)
(* path router has no route for the path.                                  *)
(***************************************************************************)
C5_FirstMatch ==
    (sphase \in {"inRouter", "inNext", "done"} /\ SomeMatch) =>
        \E k \in 1..Len(sites) :
            /\ Matches(sites[k], domainToUnicode(sctx.hostname))
            /\ \A j \in 1..(k - 1) : ~Matches(sites[j], domainToUnicode(sctx.hostname))
            /\ sctx.site = sites[k]
            /\ invoked = <<k>>

\* the first match is not the first pattern, a later pattern matches too, and
\* the chosen path router has passed the request on to the outer continuation
C5_Witness ==
    /\ sphase = "done"
    /\ Len(sites) = 3
    /\ invoked = <<2>>
    /\ souter = 1
    /\ Matches(sites[3], domainToUnicode(sctx.hostname))

(***************************************************************************)
(* C6. When no registered pattern matches the hostname, SiteRouter.process *)
(* invokes the outer continuation exactly once, invokes no path router and *)
(* leaves ctx.site unset.                                                  *)
(***************************************************************************)
C6_NoMatch ==
    (sphase \in {"inRouter", "inNext", "done"} /\ ~SomeMatch) =>
        /\ souter = 1
        /\ invoked = <<>>
        /\ sctx.site = NoSite

C6_Witness ==
    /\ sphase = "done"
    /\ Len(sites) >= 2
    /\ ~SomeMatch
    /\ souter = 1

(***************************************************************************)
(* PathRouter                                                              *)
(***************************************************************************)
\* A path is the sequence of its characters.  The alphabet holds no `$`:
\* String.prototype.replace gives `$` in the replacement a meaning of its own.
Last(seq) == seq[Len(seq)]
Front(seq) == SubSeq(seq, 1, Len(seq) - 1)

\* String.prototype.indexOf, counted from 0; -1 when absent
RECURSIVE IndexFrom(_, _, _)
IndexFrom(str, src, k) ==
    IF k + Len(src) > Len(str) THEN 0 - 1
    ELSE IF SubSeq(str, k + 1, k + Len(src)) = src THEN k
    ELSE IndexFrom(str, src, k + 1)

RECURSIVE LastIndexFrom(_, _, _)
LastIndexFrom(str, src, k) ==
    IF k < 0 THEN 0 - 1
    ELSE IF SubSeq(str, k + 1, k + Len(src)) = src THEN k
    ELSE LastIndexFrom(str, src, k - 1)

Splice(str, k, n, dest) ==
    SubSeq(str, 1, k) \o dest \o SubSeq(str, k + n + 1, Len(str))

\* str.replace(src, dest) with a string src: the first occurrence only
replaceLast(str, src, dest) ==
    LET k == LastIndexFrom(str, src, Len(str) - Len(src))
    IN IF k < 0 THEN str ELSE Splice(str, k, Len(src), dest)
replace(str, src, dest) ==
    LET k == IndexFrom(str, src, 0)
    IN IF k < 0 THEN str ELSE Splice(str, k, Len(src), dest)

\* the segments between the separators: "/a/b" gives "", "a", "b"
RECURSIVE SplitAcc(_, _, _)
SplitAcc(str, cur, segs) ==
    IF str = <<>> THEN Append(segs, cur)
    ELSE IF Head(str) = "/" THEN SplitAcc(Tail(str), <<>>, Append(segs, cur))
    ELSE SplitAcc(Tail(str), Append(cur, Head(str)), segs)

Split(str) == SplitAcc(str, <<>>, <<>>)

RECURSIVE Join(_)
Join(segs) ==
    IF segs = <<>> THEN <<>>
    ELSE IF Len(segs) = 1 THEN segs[1]
    ELSE segs[1] \o <<"/">> \o Join(Tail(segs))

\* path.normalize's normalizeString: empty and "." segments are dropped,
\* ".." removes the segment before it, or stays when the path is relative
RECURSIVE NormSegs(_, _, _)
NormSegs(segs, res, allowAboveRoot) ==
    IF segs = <<>> THEN res
    ELSE LET seg == Head(segs)
             rest == Tail(segs)
         IN IF seg = <<>> \/ seg = <<".">>
            THEN NormSegs(rest, res, allowAboveRoot)
            ELSE IF seg = <<".", ".">>
            THEN IF res # <<>> /\ Last(res) # <<".", ".">>
                 THEN NormSegs(rest, Front(res), allowAboveRoot)
                 ELSE IF allowAboveRoot
                 THEN NormSegs(rest, Append(res, seg), allowAboveRoot)
                 ELSE NormSegs(rest, res, allowAboveRoot)
            ELSE NormSegs(rest, Append(res, seg), allowAboveRoot)

\* path.normalize (posix)
pathNormalize(str) ==
    IF str = <<>> THEN <<".">>
    ELSE LET isAbsolute == Head(str) = "/"
             trailingSeparator == Last(str) = "/"
             body == Join(NormSegs(Split(str), <<>>, ~isAbsolute))
         IN IF body = <<>>
            THEN (IF isAbsolute THEN <<"/">>
                  ELSE IF trailingSeparator THEN <<".", "/">> ELSE <<".">>)
            ELSE (IF isAbsolute THEN <<"/">> ELSE <<>>)
                 \o body
                 \o (IF trailingSeparator THEN <<"/">> ELSE <<>>)

\* the paths routes are registered at: '/(.*)' is what the config's '^/'
\* becomes, '/a' is a literal path
RoutePaths == {"/(.*)", "/a"}

\* the underlying router's test of a registered path against ctx.path
\* (a literal path also matches with a trailing separator)
PathMatches(route, path) ==
    IF route = "/(.*)" THEN Len(path) >= 1 /\ Head(path) = "/"
    ELSE path = <<"/", "a">> \/ path = <<"/", "a", "/">>

\* ctx.path of the requests
ReqPaths ==
    { <<"/">>, <<"/", "a">>, <<"/", "a", "/">>, <<"/", "b">>,
      <<"/", "a", "/", "a">>, <<"/", "a", "/", "b">>, <<"/", "b", "/", "a", "a">>,
      <<"/", "a", "/", "/", "b">>, <<"/", "b", "/", ".", ".", "/", "a">> }

\* the (src, dest) pairs of the rewrites
RewritePairs ==
    { <<<<"a">>, <<"b">>>>,
      <<<<"/", "a">>, <<>>>>,
      <<<<"b">>, <<".", ".">>>>,
      <<<<"/">>, <<"/", "/">>>>,
      <<<<>>, <<"/", "b">>>> }

\* the handler modules: what their factory returns and, for a middleware,
\* whether it calls next (static falls through, echo answers, app registers
\* its own routes and returns nothing)
Modules ==
    { [name |-> "static", returns |-> TRUE, callsNext |-> TRUE],
      [name |-> "echo", returns |-> TRUE, callsNext |-> FALSE],
      [name |-> "app", returns |-> FALSE, callsNext |-> FALSE] }

\* `code?: number` of addRedirect: not given, or a redirect status
NoCode == 0 - 1
RedirectCodes == {NoCode, 301, 302, 307}
RedirectDests == {"https://a.com/"}

Layer(kind, path, src, dest, code) ==
    [kind |-> kind, path |-> path, src |-> src, dest |-> dest, code |-> code]
StackLayer(path) == Layer("stack", path, <<>>, <<>>, NoCode)

NoStack == [present |-> FALSE, mods |-> <<>>]

\* `let stack = this.stacks.get(path); if (!stack)`
HasStackNever(path) == FALSE
HasStack(path) == stacks[path].present

\* PathRouter.getStack(path): the router after it, and the stacks after it
RouterAfterGetStack(path) ==
    IF HasStack(path) THEN router ELSE Append(router, StackLayer(path))
StacksAfterGetStack(path) ==
    IF HasStack(path) THEN stacks
    ELSE [stacks EXCEPT ![path] = [present |-> TRUE, mods |-> <<>>]]

\* `if (!module) return; stack.push(module)`
PushModule(stack, mod) == IF mod.returns THEN Append(stack, mod) ELSE stack

\* the installations made so far: addModule calls, rewrites and redirects
RECURSIVE CountRules(_)
CountRules(layers) ==
    IF layers = <<>> THEN 0
    ELSE (IF Head(layers).kind = "stack" THEN 0 ELSE 1) + CountRules(Tail(layers))

Installed == Len(calls) + CountRules(router)

\* PathRouter.addModule(path, name, args); its callers await each call
addModule(path, mod, budget) ==
    /\ pphase = "build"
    /\ Installed < budget
    /\ router' = RouterAfterGetStack(path)
    /\ stacks' = [StacksAfterGetStack(path) EXCEPT
                      ![path].mods = PushModule(@, mod)]
    /\ calls' = Append(calls, [path |-> path, mod |-> mod])
    /\ UNCHANGED <<pphase, pctx, entry, chain, seen, nexts, pouter>>
    /\ UNCHANGED notPath

\* PathRouter.addRewrite(path, src, dest)
addRewrite(path, src, dest, budget) ==
    /\ pphase = "build"
    /\ Installed < budget
    /\ router' = Append(router, Layer("rewrite", path, src, dest, NoCode))
    /\ UNCHANGED <<stacks, calls, pphase, pctx, entry, chain, seen, nexts, pouter>>
    /\ UNCHANGED notPath

\* PathRouter.addRedirect(src, dest, code)
addRedirect(src, dest, code, budget) ==
    /\ pphase = "build"
    /\ Installed < budget
    /\ router' = Append(router, Layer("redirect", src, <<>>, dest, code))
    /\ UNCHANGED <<stacks, calls, pphase, pctx, entry, chain, seen, nexts, pouter>>
    /\ UNCHANGED notPath

\* one middleware of the request's chain
RewriteMw(layer) == [kind |-> "rewrite", src |-> layer.src, dest |-> layer.dest,
                     code |-> NoCode, name |-> "", callsNext |-> TRUE]
RedirectMw(layer) == [kind |-> "redirect", src |-> <<>>, dest |-> layer.dest,
                      code |-> layer.code, name |-> "", callsNext |-> FALSE]
ModuleMw(mod) == [kind |-> "module", src |-> <<>>, dest |-> <<>>,
                  code |-> NoCode, name |-> mod.name, callsNext |-> mod.callsNext]

RECURSIVE ModuleMws(_)
ModuleMws(mods) ==
    IF mods = <<>> THEN <<>> ELSE <<ModuleMw(Head(mods))>> \o ModuleMws(Tail(mods))

\* the middlewares a layer stands for: a rewrite, a redirect, or
\* Util.compose(stack), which runs the stack's modules in order and then
\* its own continuation
LayerMws(layer) ==
    IF layer.kind = "rewrite" THEN <<RewriteMw(layer)>>
    ELSE IF layer.kind = "redirect" THEN <<RedirectMw(layer)>>
    ELSE ModuleMws(stacks[layer.path].mods)

\* router.routes(): the layers whose path matches ctx.path, in the order of
\* their registration, composed into one chain
RECURSIVE Matched(_, _)
Matched(layers, path) ==
    IF layers = <<>> THEN <<>>
    ELSE (IF PathMatches(Head(layers).path, path) THEN LayerMws(Head(layers)) ELSE <<>>)
         \o Matched(Tail(layers), path)

\* the rewrite middleware: `ctx.path = pathNormalize(ctx.path.replace(src, dest))`
Rewritten(path, src, dest) == pathNormalize(replace(path, src, dest))

\* `await next()` of the rewrite middleware
RewriteNexts(n) == n + 1

\* `ctx.redirect(dest); ctx.status = code || 301`
RedirectStatusUnset(code) == 302
RedirectStatus(code) == IF code = NoCode \/ code = 0 THEN 301 ELSE code

\* the redirect middleware takes no `next`
RedirectNexts(n) == n

\* PathRouter.process(ctx, next): the underlying router matches the layers
\* against ctx.path once; without a match it calls next
PathProcess(path) ==
    /\ pphase = "build"
    /\ LET matched == Matched(router, path)
       IN /\ chain' = matched
          /\ nexts' = [k \in 1..Len(matched) |-> 0]
          /\ pctx' = [pctx EXCEPT !.path = path]
          /\ entry' = path
          /\ pphase' = "down"
          /\ UNCHANGED <<router, stacks, calls, seen, pouter>>
    /\ UNCHANGED notPath

\* the next middleware of the chain is entered and runs up to its `next`
Enter ==
    /\ pphase = "down"
    /\ Len(seen) < Len(chain)
    /\ LET k == Len(seen) + 1
           mw == chain[k]
           n == IF mw.kind = "rewrite" THEN RewriteNexts(nexts[k])
                ELSE IF mw.kind = "redirect" THEN RedirectNexts(nexts[k])
                ELSE IF mw.callsNext THEN nexts[k] + 1
                ELSE nexts[k]
       IN /\ seen' = Append(seen, pctx.path)
          /\ nexts' = [nexts EXCEPT ![k] = n]
          /\ pphase' = IF n > nexts[k] THEN "down" ELSE "up"
          /\ pctx' =
                IF mw.kind = "rewrite"
                THEN [pctx EXCEPT !.path = Rewritten(pctx.path, mw.src, mw.dest)]
                ELSE IF mw.kind = "redirect"
                THEN [pctx EXCEPT !.handler = "MizukiRedirecter",
                                  !.location = mw.dest,
                                  !.status = RedirectStatus(mw.code)]
                ELSE [pctx EXCEPT !.handler = mw.name]
    /\ UNCHANGED <<router, stacks, calls, entry, chain, pouter>>
    /\ UNCHANGED notPath

\* the last middleware called next: the outer continuation runs
EnterOuter ==
    /\ pphase = "down"
    /\ Len(seen) = Len(chain)
    /\ seen' = Append(seen, pctx.path)
    /\ pouter' = pouter + 1
    /\ pphase' = "up"
    /\ UNCHANGED <<router, stacks, calls, pctx, entry, chain, nexts>>
    /\ UNCHANGED notPath

\* every `await next()` returns, up to the caller of PathRouter.process
Unwind ==
    /\ pphase = "up"
    /\ pphase' = "done"
    /\ UNCHANGED <<router, stacks, calls, pctx, entry, chain, seen, nexts, pouter>>
    /\ UNCHANGED notPath

PathInit ==
    /\ router = <<>>
    /\ stacks = [p \in RoutePaths |-> NoStack]
    /\ calls = <<>>
    /\ pphase = "build"
    /\ pctx = [path |-> <<>>, status |-> 404, location |-> "", handler |-> ""]
    /\ entry = <<>>
    /\ chain = <<>>
    /\ seen = <<>>
    /\ nexts = <<>>
    /\ pouter = 0

\* a PathRouter that is given handler modules only
StacksNext ==
    \/ \E path \in RoutePaths, mod \in Modules : addModule(path, mod, MaxCalls)
    \/ \E path \in ReqPaths : PathProcess(path)
    \/ Enter
    \/ EnterOuter
    \/ Unwind

\* a PathRouter that is given rewrites, redirects and handler modules
RulesNext ==
    \/ \E path \in RoutePaths, mod \in Modules : addModule(path, mod, MaxRules)
    \/ \E path \in RoutePaths, pair \in RewritePairs :
          addRewrite(path, pair[1], pair[2], MaxRules)
    \/ \E src \in RoutePaths, dest \in RedirectDests, code \in RedirectCodes :
          addRedirect(src, dest, code, MaxRules)
    \/ \E path \in ReqPaths : PathProcess(path)
    \/ Enter
    \/ EnterOuter
    \/ Unwind

(***************************************************************************)
(* What the claims about the PathRouter speak of                           *)
(***************************************************************************)
\* the modules of the addModule calls for a path, in call order: of all the
\* calls, or of those whose factory returned a middleware
RECURSIVE ModsOf(_, _, _)
ModsOf(cs, path, all) ==
    IF cs = <<>> THEN <<>>
    ELSE (IF Head(cs).path = path /\ (all \/ Head(cs).mod.returns)
          THEN <<Head(cs).mod>> ELSE <<>>)
         \o ModsOf(Tail(cs), path, all)

CalledFor(path) == \E c \in 1..Len(calls) : calls[c].path = path

FirstCall(path) ==
    CHOOSE c \in 1..Len(calls) :
        /\ calls[c].path = path
        /\ \A d \in 1..(c - 1) : calls[d].path # path

StackLayersAt(path) ==
    {k \in 1..Len(router) : router[k].kind = "stack" /\ router[k].path = path}

\* middleware k of the chain has run
Ran(k) == k \in 1..Len(seen) /\ k <= Len(chain)

\* ctx.path as whatever runs right after middleware k finds it
After(k) == IF k < Len(seen) THEN seen[k + 1] ELSE pctx.path

Occurs(str, src, i) ==
    /\ i >= 0
    /\ i + Len(src) <= Len(str)
    /\ \A c \in 1..Len(src) : str[i + c] = src[c]

Occurrences(str, src) == {i \in 0..Len(str) : Occurs(str, src, i)}

\* no empty segment inside, no "." segment, and ".." only in front of a
\* relative path
Normal(path) ==
    /\ path # <<>>
    /\ \A i \in 1..(Len(path) - 1) : ~(path[i] = "/" /\ path[i + 1] = "/")
    /\ LET segs == Split(path)
       IN \A i \in 1..Len(segs) :
             /\ segs[i] = <<".">> => (path = <<".">> \/ path = <<".", "/">>)
             /\ segs[i] = <<".", ".">> =>
                   /\ Head(path) # "/"
                   /\ \A j \in 1..(i - 1) : segs[j] = <<".", ".">>

\* `after` is `before` with the first occurrence of src replaced by dest,
\* normalised
FirstReplaced(before, src, dest, after) ==
    /\ Normal(after)
    /\ IF Occurrences(before, src) = {}
       THEN after = pathNormalize(before)
       ELSE \E i \in Occurrences(before, src) :
               /\ \A j \in Occurrences(before, src) : i <= j
               /\ after = pathNormalize(SubSeq(before, 1, i) \o dest
                                        \o SubSeq(before, i + Len(src) + 1, Len(before)))

(***************************************************************************)
(* C7 (as claimed). The stack of a path holds the modules of all addModule *)
(* calls for that path in call order.                                      *)
(***************************************************************************)
C7_AllCalls ==
    \A path \in RoutePaths : stacks[path].mods = ModsOf(calls, path, TRUE)

(***************************************************************************)
(* C7 (amended). For any sequence of addModule calls on one PathRouter,    *)
(* exactly one composed middleware is installed per distinct path, at the  *)
(* first call for that path, and the stack of a path holds, in call order, *)
(* the modules of the addModule calls for that path whose factory returned *)
(* a middleware; at request time the first module's next invokes the       *)
(* second, and so on.                                                      *)
(***************************************************************************)
C7_Stacks ==
    /\ \A path \in RoutePaths :
          /\ Cardinality(StackLayersAt(path)) = (IF CalledFor(path) THEN 1 ELSE 0)
          /\ stacks[path].mods = ModsOf(calls, path, FALSE)
    /\ \A i, j \in 1..Len(router) :
          (i < j /\ router[i].kind = "stack" /\ router[j].kind = "stack") =>
              FirstCall(router[i].path) < FirstCall(router[j].path)
    /\ pphase # "build" =>
          /\ \A l \in 1..Len(router) :
                (router[l].kind = "stack" /\ PathMatches(router[l].path, entry)) =>
                    \E off \in 0..Len(chain) :
                        \A i \in 1..Len(stacks[router[l].path].mods) :
                            /\ off + i <= Len(chain)
                            /\ chain[off + i] = ModuleMw(stacks[router[l].path].mods[i])
          /\ \A k \in 2..Len(seen) : nexts[k - 1] = 1
          /\ \A k \in 1..Len(chain) :
                (nexts[k] = 1 /\ pphase \in {"up", "done"}) => Len(seen) >= k + 1

\* three calls for one path, the second for a module that returns nothing;
\* the request entered the first module and, by its next, the third
C7_Witness ==
    /\ Len(calls) = 3
    /\ calls[1].path = calls[2].path /\ calls[2].path = calls[3].path
    /\ calls[1].mod.name = "static"
    /\ calls[2].mod.name = "app"
    /\ calls[3].mod.name = "echo"
    /\ Len(router) = 1
    /\ pphase = "done"
    /\ Len(seen) = 2
    /\ pctx.handler = "echo"

(***************************************************************************)
(* C8. The rewrite middleware replaces the first occurrence of src in      *)
(* ctx.path by dest, normalises the result and then calls next exactly     *)
(* once; every middleware that runs downstream of it in the same request   *)
(* observes the substituted path.                                          *)
(***************************************************************************)
C8_Rewrite ==
    \A k \in 1..Len(seen) :
        (Ran(k) /\ chain[k].kind = "rewrite") =>
            /\ FirstReplaced(seen[k], chain[k].src, chain[k].dest, After(k))
            /\ nexts[k] = 1
            /\ pphase \in {"up", "done"} => Len(seen) >= k + 1
            /\ \A j \in (k + 1)..Len(seen) :
                  (\A m \in (k + 1)..(j - 1) : chain[m].kind # "rewrite") =>
                      seen[j] = After(k)

\* src occurs twice in the path, the substitution needed normalising, and a
\* module entered through the rewrite's next has seen the result
C8_Witness ==
    /\ Len(seen) >= 2
    /\ Len(chain) >= 2
    /\ chain[1].kind = "rewrite"
    /\ chain[2].kind = "module"
    /\ Cardinality(Occurrences(seen[1], chain[1].src)) >= 2
    /\ replace(seen[1], chain[1].src, chain[1].dest) # seen[2]
    /\ seen[2] # seen[1]

(***************************************************************************)
(* C9. Rewrite locality: for a request that matches a rewrite rule and     *)
(* falls through the whole stack, ctx.path as the caller of the router     *)
(* observes it after the chain returned equals the value it had before the *)
(* rewrite ran.                                                            *)
(***************************************************************************)
C9_RewriteLocality ==
    ( /\ pphase = "done"
      /\ pouter = 1
      /\ \E k \in 1..Len(chain) : chain[k].kind = "rewrite" )
    => pctx.path = entry

(***************************************************************************)
(* C10. The redirect middleware never calls next; after it ran the         *)
(* response has Location = dest and status = code, or 301 when no code was *)
(* configured.                                                             *)
(***************************************************************************)
C10_Redirect ==
    \A k \in 1..Len(seen) :
        (Ran(k) /\ chain[k].kind = "redirect") =>
            /\ nexts[k] = 0
            /\ Len(seen) = k
            /\ pouter = 0
            /\ pctx.location = chain[k].dest
            /\ pctx.status = (IF chain[k].code = NoCode THEN 301 ELSE chain[k].code)
            /\ pctx.handler = "MizukiRedirecter"

\* a redirect with a configured code ran behind a rewrite
C10_Witness ==
    /\ pphase = "done"
    /\ Len(chain) = 2
    /\ Len(seen) = 2
    /\ chain[1].kind = "rewrite"
    /\ chain[2].kind = "redirect"
    /\ chain[2].code = 307
    /\ pctx.status = 307

(***************************************************************************)
(* UpgradableResponse (src/src/lib/stat.ts)                                *)
(***************************************************************************)
\* the errors the methods throw
NoError == "none"
HeadersSentError == "Headers have already been sent"
NoHeadError == "One of headers or message must be provided"
ArrayError == "Headers must not be an array"
WriteAfterEnd == "write after end"

\* argument values of writeHead: undefined, a string, a header object, an array
Undef == [t |-> "undef", s |-> "", h |-> <<>>]
Str(s) == [t |-> "str", s |-> s, h |-> <<>>]
Obj(h) == [t |-> "obj", s |-> "", h |-> h]
Arr == [t |-> "arr", s |-> "", h |-> <<>>]
Falsy(a) == a.t = "undef" \/ (a.t = "str" /\ a.s = "")

HeaderNames == {"a", "b"}
HeaderValues == {"1", "2"}
StatusCodes == {200, 500}
StatusMessages == {"", "Custom"}
Chunks == {"x", "y"}

\* statusCodes.getStatusText for the codes above
getStatusText(code) == IF code = 200 THEN "OK" ELSE "Internal Server Error"

\* a header object keeps its names in insertion order: <<name, value>> pairs
HasName(h, name) == \E i \in 1..Len(h) : h[i][1] = name
SetIn(h, name, value) ==
    IF HasName(h, name)
    THEN [i \in 1..Len(h) |-> IF h[i][1] = name THEN <<name, value>> ELSE h[i]]
    ELSE Append(h, <<name, value>>)
DeleteIn(h, name) == SelectSeq(h, LAMBDA p : p[1] # name)

\* what is put on the socket, and by whom: the response or the WebSocket server
StatusLine(code, text) ==
    [by |-> "res", t |-> "status", code |-> code, name |-> "", value |-> text]
HeaderLine(p) ==
    [by |-> "res", t |-> "header", code |-> 0, name |-> p[1], value |-> p[2]]
BlankLine == [by |-> "res", t |-> "blank", code |-> 0, name |-> "", value |-> ""]
BodyChunk(c) == [by |-> "res", t |-> "body", code |-> 0, name |-> "", value |-> c]
SocketEnd == [by |-> "res", t |-> "end", code |-> 0, name |-> "", value |-> ""]
Handshake == [by |-> "ws", t |-> "handshake", code |-> 101, name |-> "", value |-> ""]
Abort == [by |-> "ws", t |-> "abort", code |-> 400, name |-> "", value |-> ""]

HeaderLines(hs) == [i \in 1..Len(hs.h) |-> HeaderLine(hs.h[i])]

\* the head is serialised unless the response was upgraded (lines 147-153)
SerialisesHead(r) == ~r.upgraded

\* the guard of setHeader, removeHeader, writeHead and upgrade
HeadersGuardUpgraded(r) == r.upgraded
HeadersGuard(r) == r.headersSent

\* writeHead: the error it throws, the socket and the response afterwards
WriteHeadResult(r, sock, code, message, headers) ==
    LET hs == IF message.t # "str" THEN message ELSE headers
        msg == IF message.t # "str" THEN "" ELSE message.s
        text == IF msg # "" THEN msg ELSE getStatusText(code)
    IN IF HeadersGuard(r)
         THEN [err |-> HeadersSentError, sock |-> sock, r |-> r]
       ELSE IF Falsy(headers) /\ Falsy(message)
         THEN [err |-> NoHeadError, sock |-> sock, r |-> r]
       ELSE IF hs.t = "arr"
         THEN [err |-> ArrayError, sock |-> sock, r |-> r]
       ELSE [err |-> NoError,
             sock |-> IF SerialisesHead(r)
                      THEN sock \o <<StatusLine(code, text)>> \o HeaderLines(hs)
                                \o <<BlankLine>>
                      ELSE sock,
             r |-> [r EXCEPT !.headersSent = TRUE]]

\* the close code the finish handler gives the client WebSocket (line 92)
CloseCodeNormal(code) == 1000
CloseCode(code) == IF code = 500 THEN 1011 ELSE 1000

\* _write serialises the head first when it was not sent yet (line 89)
HeadPendingNever(r) == FALSE
HeadPending(r) == ~r.headersSent

\* _write: the socket, the response and the client WebSocket afterwards;
\* chunk is "" for the null chunk of the finish handler
NullChunk == ""
WriteResult(r, sock, ws, chunk) ==
    LET head == IF HeadPending(r)
                THEN WriteHeadResult(r, sock, r.statusCode, Str(r.statusMessage),
                                     Obj(r.headers))
                ELSE [err |-> NoError, sock |-> sock, r |-> r]
    IN IF head.r.upgraded
       THEN [sock |-> head.sock, r |-> head.r, async |-> FALSE,
             ws |-> IF ws.state = "open" /\ chunk = NullChunk
                    THEN [ws EXCEPT !.state = "closing",
                                    !.closes = Append(@, CloseCode(head.r.statusCode))]
                    ELSE ws]
       ELSE [sock |-> Append(head.sock,
                             IF chunk = NullChunk THEN SocketEnd ELSE BodyChunk(chunk)),
             r |-> head.r, async |-> TRUE, ws |-> ws]

\* the outcome of a method call: its number, the method, what it threw
Called(op, err, arg) == [n |-> call.n + 1, op |-> op, err |-> err, arg |-> arg]

setHeader(name, value) ==
    /\ call.n < MaxOps
    /\ IF HeadersGuard(resp)
       THEN /\ call' = Called("setHeader", HeadersSentError, name)
            /\ UNCHANGED resp
       ELSE /\ call' = Called("setHeader", NoError, name)
            /\ resp' = [resp EXCEPT !.headers = SetIn(@, name, value)]
    /\ UNCHANGED <<socket, stream, wsock>>
    /\ UNCHANGED notResp

removeHeader(name) ==
    /\ call.n < MaxOps
    /\ IF HeadersGuard(resp)
       THEN /\ call' = Called("removeHeader", HeadersSentError, name)
            /\ UNCHANGED resp
       ELSE /\ call' = Called("removeHeader", NoError, name)
            /\ resp' = [resp EXCEPT !.headers = DeleteIn(@, name)]
    /\ UNCHANGED <<socket, stream, wsock>>
    /\ UNCHANGED notResp

writeHead(code, message, headers) ==
    /\ call.n < MaxOps
    /\ LET w == WriteHeadResult(resp, socket, code, message, headers)
       IN /\ call' = Called("writeHead", w.err, "")
          /\ resp' = w.r
          /\ socket' = w.sock
    /\ UNCHANGED <<stream, wsock>>
    /\ UNCHANGED notResp

\* ctx.status = code: the fields statusCode and statusMessage are assigned
SetStatus(code, message) ==
    /\ call.n < MaxOps
    /\ call' = Called("status", NoError, "")
    /\ resp' = [resp EXCEPT !.statusCode = code, !.statusMessage = message]
    /\ UNCHANGED <<socket, stream, wsock>>
    /\ UNCHANGED notResp

\* upgrade(req): the handshake of the WebSocket server completes later
upgrade ==
    /\ call.n < MaxOps
    /\ IF HeadersGuard(resp)
       THEN /\ call' = Called("upgrade", HeadersSentError, "")
            /\ UNCHANGED <<resp, wsock>>
       ELSE /\ call' = Called("upgrade", NoError, "")
            /\ resp' = [resp EXCEPT !.upgraded = TRUE]
            /\ wsock' = [wsock EXCEPT !.pending = @ + 1]
    /\ UNCHANGED <<socket, stream>>
    /\ UNCHANGED notResp

\* handleUpgrade calls back with the client: this.websocket = client
HandshakeDone ==
    /\ wsock.pending > 0
    /\ socket' = Append(socket, Handshake)
    /\ wsock' = [wsock EXCEPT !.pending = @ - 1, !.state = "open"]
    /\ UNCHANGED <<resp, stream, call>>
    /\ UNCHANGED notResp

\* the WebSocket server aborts the handshake and finishes the socket
HandshakeFail ==
    /\ wsock.pending > 0
    /\ socket' = Append(socket, Abort)
    /\ wsock' = [wsock EXCEPT !.pending = @ - 1]
    /\ UNCHANGED <<resp, stream, call>>
    /\ UNCHANGED notResp

\* the client WebSocket leaves readyState 1 on its own or completes a close
ClientGone ==
    /\ wsock.state \in {"open", "closing"}
    /\ wsock' = [wsock EXCEPT !.state = "closed"]
    /\ UNCHANGED <<resp, socket, stream, call>>
    /\ UNCHANGED notResp

\* Writable.write: _write runs at once unless a write is in flight
write(chunk) ==
    /\ call.n < MaxOps
    /\ IF stream.ending
       THEN /\ call' = Called("write", WriteAfterEnd, chunk)
            /\ UNCHANGED <<resp, socket, stream, wsock>>
       ELSE /\ call' = Called("write", NoError, chunk)
            /\ IF stream.writing
               THEN /\ stream' = [stream EXCEPT !.buffer = Append(@, chunk)]
                    /\ UNCHANGED <<resp, socket, wsock>>
               ELSE LET w == WriteResult(resp, socket, wsock, chunk)
                    IN /\ resp' = w.r
                       /\ socket' = w.sock
                       /\ wsock' = w.ws
                       /\ stream' = [stream EXCEPT !.writing = w.async]
    /\ UNCHANGED notResp

\* the callback of socket.write: the next buffered chunk goes to _write
SocketFlushed ==
    /\ stream.writing
    /\ IF stream.buffer = <<>>
       THEN /\ stream' = [stream EXCEPT !.writing = FALSE]
            /\ UNCHANGED <<resp, socket, wsock>>
       ELSE LET w == WriteResult(resp, socket, wsock, Head(stream.buffer))
            IN /\ resp' = w.r
               /\ socket' = w.sock
               /\ wsock' = w.ws
               /\ stream' = [stream EXCEPT !.writing = w.async, !.buffer = Tail(@)]
    /\ UNCHANGED call
    /\ UNCHANGED notResp

\* Writable.end
end ==
    /\ call.n < MaxOps
    /\ call' = Called("end", NoError, "")
    /\ stream' = [stream EXCEPT !.ending = TRUE]
    /\ UNCHANGED <<resp, socket, wsock>>
    /\ UNCHANGED notResp

\* 'finish' is emitted once, after end and after every write was flushed
Finish ==
    /\ stream.ending /\ ~stream.writing /\ stream.buffer = <<>>
    /\ ~resp.finished
    /\ LET w == WriteResult(resp, socket, wsock, NullChunk)
       IN /\ resp' = [w.r EXCEPT !.finished = TRUE]
          /\ socket' = w.sock
          /\ wsock' = w.ws
    /\ UNCHANGED <<stream, call>>
    /\ UNCHANGED notResp

HeaderObjects == {<<>>, <<<<"a", "1">>>>}
MessageArgs == {Undef, Arr} \cup {Str(s) : s \in StatusMessages}
                   \cup {Obj(h) : h \in HeaderObjects}
HeadersArgs == {Undef, Arr} \cup {Obj(h) : h \in HeaderObjects}

RespInit ==
    /\ resp = [upgraded |-> FALSE, headersSent |-> FALSE, headers |-> <<>>,
              statusCode |-> 200, statusMessage |-> "", finished |-> FALSE]
    /\ socket = <<>>
    /\ stream = [writing |-> FALSE, buffer |-> <<>>, ending |-> FALSE]
    /\ wsock = [state |-> "none", closes |-> <<>>, pending |-> 0]
    /\ call = [n |-> 0, op |-> "none", err |-> NoError, arg |-> ""]

RespNext ==
    \/ \E name \in HeaderNames : \E value \in HeaderValues : setHeader(name, value)
    \/ \E name \in HeaderNames : removeHeader(name)
    \/ \E code \in StatusCodes : \E message \in MessageArgs :
           \E headers \in HeadersArgs : writeHead(code, message, headers)
    \/ \E code \in StatusCodes : \E message \in StatusMessages : SetStatus(code, message)
    \/ upgrade
    \/ HandshakeDone
    \/ HandshakeFail
    \/ ClientGone
    \/ \E chunk \in Chunks : write(chunk)
    \/ SocketFlushed
    \/ end
    \/ Finish

(***************************************************************************)
(* proxy and wsforward (src/modules/router/router.ts)                      *)
(***************************************************************************)
\* frames of a WebSocket, and the byteLength the forwarder counts for each
Msgs == {"m", "n"}
ByteLength(data) == IF data = "m" THEN 1 ELSE 2

\* the upstream statuses of an HTTP response; NoStatus is an absent statusCode
NoStatus == 0
UpstreamStatuses == {NoStatus, 200, 404}

\* a WebSocket that does not exist yet, and one being connected
NoPeer == [state |-> "none", closeCalls |-> 0, sent |-> <<>>, recv |-> <<>>]
Connecting == [NoPeer EXCEPT !.state = "connecting"]
Open == [NoPeer EXCEPT !.state = "open"]

\* WebSocket.close(): an open socket starts closing, a closed one stays closed
close(peer) ==
    [peer EXCEPT !.closeCalls = @ + 1,
                 !.state = IF @ \in {"open", "connecting"} THEN "closing" ELSE @]

\* WebSocket.send(data): the frame goes out only on an open socket
send(peer, data) ==
    IF peer.state = "open" THEN [peer EXCEPT !.sent = Append(@, data)] ELSE peer

\* resolve and reject of the session promise: only the first one counts
Settle(s, outcome) ==
    IF s.state = "pending" THEN [state |-> outcome.state, err |-> outcome.err] ELSE s
Resolution == [state |-> "resolved", err |-> ""]
Rejection(err) == [state |-> "rejected", err |-> err]

\* the branch of the proxy handler (line 514)
TakesWebSocketAnyConf(ctx, conf) == ctx.ws /\ ctx.upgradable
TakesWebSocket(ctx, conf) == ctx.ws /\ ctx.upgradable /\ conf.websocket

\* a header name is a sequence of its parts; a pseudo-header of HTTP/2
\* starts with ":".  A header object is a set of <<name, value>> entries.
StartsWithColon(name) == name # <<>> /\ name[1] = ":"
Names(obj) == {p[1] : p \in obj}

\* Util.filter: the entries whose key the predicate accepts
filter(obj, predicate(_)) == {p \in obj : predicate(p[1])}

\* { ...a, ...b }: the entries of b, and those of a that b does not replace
Spread(a, b) == {p \in a : p[1] \notin Names(b)} \cup b

\* conf.reqHeadersFilter || ['host'] and
\* conf.resHeadersFilter || ['connection', 'transfer-encoding']
DefaultReqHeadersFilter == {<<"host">>}
DefaultResHeadersFilter == {<<"connection">>, <<"transfer-encoding">>}

\* the predicates proxy gives Util.filter (lines 544, 553)
KeepsRequestHeader(name) ==
    ~StartsWithColon(name) /\ name \notin pxconf.reqHeadersFilter
KeepsResponseHeader(name) ==
    ~StartsWithColon(name) /\ name \notin pxconf.resHeadersFilter

\* the URL the handler builds: host and hostname of the upstream (line 509)
ProxyUrl(base) ==
    [hostname |-> base.hostname,
     host |-> IF base.port = "" THEN base.hostname
              ELSE base.hostname \o ":" \o base.port]

\* Buffer.concat(chunks)
RECURSIVE Concat(_)
Concat(chunks) == IF chunks = <<>> THEN "" ELSE Head(chunks) \o Concat(Tail(chunks))

\* no upstream request, and request(url, usr, options): the Host header is
\* url.hostname unless options.headers brings its own (lines 576-579)
NoRequest ==
    [state |-> "none", url |-> ProxyUrl([hostname |-> "", port |-> ""]),
     headers |-> {}, status |-> 0, resHeaders |-> {}, chunks |-> <<>>,
     body |-> "", promise |-> "none"]
request(url, headers) ==
    [NoRequest EXCEPT !.state = "sent", !.url = url,
                      !.headers = Spread({<<<<"host">>, url.hostname>>}, headers),
                      !.promise = "pending"]

\* the handler is invoked: wsforward opens the upstream WebSocket, or
\* request sends the HTTP request
ProxyInvoke ==
    /\ pxphase = "idle"
    /\ IF TakesWebSocket(pxctx, pxconf)
       THEN /\ pxctx' = [pxctx EXCEPT !.handler = "ProxyWS"]
            /\ pxphase' = "ws"
            /\ session' = [state |-> "pending", err |-> ""]
            /\ upstream' = Connecting
            /\ UNCHANGED ureq
       ELSE /\ pxctx' = [pxctx EXCEPT !.handler = "Proxy"]
            /\ pxphase' = "http"
            /\ ureq' = request(ProxyUrl(pxconf.upstream),
                               filter(pxctx.headers, KeepsRequestHeader))
            /\ UNCHANGED <<session, upstream>>
    /\ UNCHANGED <<pxconf, client, upg, bridged, stat, pxnexts>>
    /\ UNCHANGED notProxy

\* req 'open': upgrade() is called; it may throw when the head was sent
UpstreamOpen(outcome) ==
    /\ upstream.state = "connecting"
    /\ upstream' = [upstream EXCEPT !.state = "open"]
    /\ upg' = [calls |-> upg.calls + 1, state |-> outcome]
    /\ UNCHANGED <<pxconf, ureq, pxctx, pxphase, session, client, bridged, stat, pxnexts>>
    /\ UNCHANGED notProxy

\* the continuation of upgrade(): the forwarding handlers are installed
\* (lines 616-643); the bridge is live when the upstream is still open
UpgradeResolves ==
    /\ upg.state = "pending"
    /\ upg' = [upg EXCEPT !.state = "resolved"]
    /\ client' = Open
    /\ bridged' = IF upstream.state = "open" THEN "live" ELSE "stale"
    /\ UNCHANGED <<pxconf, ureq, pxctx, pxphase, session, upstream, stat, pxnexts>>
    /\ UNCHANGED notProxy

\* upgrade() rejects: reject(err); req.close() (lines 645-648)
UpgradeRejects ==
    /\ upg.state = "pending"
    /\ upg' = [upg EXCEPT !.state = "rejected"]
    /\ session' = Settle(session, Rejection("Upgrade failed"))
    /\ upstream' = close(upstream)
    /\ UNCHANGED <<pxconf, ureq, pxctx, pxphase, client, bridged, stat, pxnexts>>
    /\ UNCHANGED notProxy

\* where the message handlers send what they received (lines 635, 640)
ForwardsNothing(peer, data) == peer
Forwards(peer, data) == send(peer, data)

\* req 'message': without the forwarder nobody listens
UpstreamMessage(data) ==
    /\ upstream.state = "open"
    /\ Len(upstream.recv) + Len(client.recv) < MaxMsgs
    /\ upstream' = [upstream EXCEPT !.recv = Append(@, data)]
    /\ IF bridged # "none"
       THEN /\ client' = Forwards(client, data)
            /\ stat' = stat + ByteLength(data)
       ELSE UNCHANGED <<client, stat>>
    /\ UNCHANGED <<pxconf, ureq, pxctx, pxphase, session, upg, bridged, pxnexts>>
    /\ UNCHANGED notProxy

\* usr 'message'
ClientMessage(data) ==
    /\ client.state = "open"
    /\ Len(upstream.recv) + Len(client.recv) < MaxMsgs
    /\ client' = [client EXCEPT !.recv = Append(@, data)]
    /\ upstream' = Forwards(upstream, data)
    /\ stat' = stat + ByteLength(data)
    /\ UNCHANGED <<pxconf, ureq, pxctx, pxphase, session, upg, bridged, pxnexts>>
    /\ UNCHANGED notProxy

\* what a close or error handler of the forwarder does to the other peer
ClosesOtherNot(peer) == peer
ClosesOther(peer) == close(peer)

\* rejectOnError only rejects: the client handshake is left alone (line 610)
RejectOnErrorUpgrades(u) == [calls |-> u.calls + 1, state |-> "pending"]
RejectOnError(u) == u

\* req 'error': rejectOnError before the forwarder is installed, afterwards
\* reject(err); usr.close().  The failed socket goes on to close.
UpstreamError ==
    /\ upstream.state \in {"connecting", "open"}
    /\ upstream' = [upstream EXCEPT !.state = "closing"]
    /\ session' = Settle(session, Rejection("upstream error"))
    /\ client' = IF bridged # "none" THEN ClosesOther(client) ELSE client
    /\ upg' = IF bridged = "none" THEN RejectOnError(upg) ELSE upg
    /\ UNCHANGED <<pxconf, ureq, pxctx, pxphase, bridged, stat, pxnexts>>
    /\ UNCHANGED notProxy

\* usr 'error': reject(err); req.close()
ClientError ==
    /\ client.state = "open"
    /\ client' = [client EXCEPT !.state = "closing"]
    /\ session' = Settle(session, Rejection("client error"))
    /\ upstream' = ClosesOther(upstream)
    /\ UNCHANGED <<pxconf, ureq, pxctx, pxphase, upg, bridged, stat, pxnexts>>
    /\ UNCHANGED notProxy

\* req 'close': resolve(stat); usr.close() once the forwarder is installed
UpstreamClosed ==
    /\ upstream.state \in {"open", "closing"}
    /\ upstream' = [upstream EXCEPT !.state = "closed"]
    /\ IF bridged # "none"
       THEN /\ session' = Settle(session, Resolution)
            /\ client' = ClosesOther(client)
       ELSE UNCHANGED <<session, client>>
    /\ UNCHANGED <<pxconf, ureq, pxctx, pxphase, upg, bridged, stat, pxnexts>>
    /\ UNCHANGED notProxy

\* usr 'close': resolve(stat); req.close()
ClientClosed ==
    /\ client.state \in {"open", "closing"}
    /\ client' = [client EXCEPT !.state = "closed"]
    /\ session' = Settle(session, Resolution)
    /\ upstream' = ClosesOther(upstream)
    /\ UNCHANGED <<pxconf, ureq, pxctx, pxphase, upg, bridged, stat, pxnexts>>
    /\ UNCHANGED notProxy

\* the session resolved: ctx.status = 101, ctx.bytes = stat.bytes, and the
\* handler returns without next (lines 521-528)
ProxyWsDone ==
    /\ pxphase = "ws"
    /\ session.state = "resolved"
    /\ pxctx' = [pxctx EXCEPT !.status = 101, !.bytes = stat]
    /\ pxphase' = "done"
    /\ UNCHANGED <<pxconf, ureq, session, upstream, client, upg, bridged, stat, pxnexts>>
    /\ UNCHANGED notProxy

\* the catch block calls next (line 540)
NextsAfterFailureNone(n) == n
NextsAfterFailure(n) == n + 1

\* the session rejected: ctx.body = '', ctx.status = 200, ctx.error = err,
\* then await next() (lines 529-541)
ProxyWsFailed ==
    /\ pxphase = "ws"
    /\ session.state = "rejected"
    /\ pxctx' = [pxctx EXCEPT !.body = "", !.status = 200, !.error = session.err]
    /\ pxnexts' = NextsAfterFailure(pxnexts)
    /\ pxphase' = "next"
    /\ UNCHANGED <<pxconf, ureq, session, upstream, client, upg, bridged, stat>>
    /\ UNCHANGED notProxy

\* resolve and reject of the promise of request: only the first one counts
SettleRequest(u, outcome) ==
    IF u.promise = "pending" THEN [u EXCEPT !.promise = outcome] ELSE u

\* req 'response': the status and the headers of the upstream arrive
UpstreamResponds(code, headers) ==
    /\ ureq.state = "sent"
    /\ ureq' = [ureq EXCEPT !.state = "response", !.status = code,
                            !.resHeaders = headers]
    /\ UNCHANGED <<pxconf, pxctx, pxphase, session, upstream, client, upg, bridged,
                   stat, pxnexts>>
    /\ UNCHANGED notProxy

\* res 'data': chunks.push(data)
UpstreamData(chunk) ==
    /\ ureq.state = "response"
    /\ Len(ureq.chunks) < MaxData
    /\ ureq' = [ureq EXCEPT !.chunks = Append(@, chunk)]
    /\ UNCHANGED <<pxconf, pxctx, pxphase, session, upstream, client, upg, bridged,
                   stat, pxnexts>>
    /\ UNCHANGED notProxy

\* res 'end': res.body = Buffer.concat(chunks); resolve(res)
UpstreamEnds ==
    /\ ureq.state = "response"
    /\ ureq' = SettleRequest([ureq EXCEPT !.state = "ended",
                                          !.body = Concat(ureq.chunks)], "resolved")
    /\ UNCHANGED <<pxconf, pxctx, pxphase, session, upstream, client, upg, bridged,
                   stat, pxnexts>>
    /\ UNCHANGED notProxy

\* req 'error' or res 'error': reject(err)
UpstreamFails ==
    /\ ureq.state \in {"sent", "response"}
    /\ ureq' = SettleRequest([ureq EXCEPT !.state = "failed"], "rejected")
    /\ UNCHANGED <<pxconf, pxctx, pxphase, session, upstream, client, upg, bridged,
                   stat, pxnexts>>
    /\ UNCHANGED notProxy

\* req 'timeout': req.destroy()
UpstreamTimeout ==
    /\ ureq.state \in {"sent", "response"}
    /\ ureq' = [ureq EXCEPT !.state = "destroyed"]
    /\ UNCHANGED <<pxconf, pxctx, pxphase, session, upstream, client, upg, bridged,
                   stat, pxnexts>>
    /\ UNCHANGED notProxy

\* the destroyed request reports 'error' (socket hang up): reject(err)
DestroyReported ==
    /\ ureq.state = "destroyed"
    /\ ureq.promise = "pending"
    /\ ureq' = SettleRequest(ureq, "rejected")
    /\ UNCHANGED <<pxconf, pxctx, pxphase, session, upstream, client, upg, bridged,
                   stat, pxnexts>>
    /\ UNCHANGED notProxy

\* what the listeners of usr do to the upstream request when the client
\* aborts: the only listener is registered for 'abort' (line 598), an event
\* of http.ClientRequest; an http.IncomingMessage reports the abort of its
\* client with 'aborted' and 'close', so no listener runs
OnClientAbort(u) == u

\* the client aborts its request while the handler waits for the upstream
ClientAborts ==
    /\ pxphase = "http"
    /\ ~pxctx.aborted
    /\ pxctx' = [pxctx EXCEPT !.aborted = TRUE]
    /\ ureq' = OnClientAbort(ureq)
    /\ UNCHANGED <<pxconf, pxphase, session, upstream, client, upg, bridged, stat,
                   pxnexts>>
    /\ UNCHANGED notProxy

\* ctx.status = res.statusCode || 503 (line 552)
StatusAsIs(code) == code
StatusOr503(code) == IF code = NoStatus THEN 503 ELSE code

\* request resolved with the upstream response: body, status, the filtered
\* headers, then next (lines 551-559)
RequestResolves ==
    /\ pxphase = "http"
    /\ ureq.promise = "resolved"
    /\ pxctx' = [pxctx EXCEPT !.body = ureq.body,
                              !.status = StatusOr503(ureq.status),
                              !.set = filter(ureq.resHeaders, KeepsResponseHeader)]
    /\ pxnexts' = pxnexts + 1
    /\ pxphase' = "next"
    /\ UNCHANGED <<pxconf, ureq, session, upstream, client, upg, bridged, stat>>
    /\ UNCHANGED notProxy

\* request rejected: nothing catches the error, the handler throws (line 546)
RequestRejects ==
    /\ pxphase = "http"
    /\ ureq.promise = "rejected"
    /\ pxphase' = "threw"
    /\ UNCHANGED <<pxconf, ureq, pxctx, session, upstream, client, upg, bridged, stat,
                   pxnexts>>
    /\ UNCHANGED notProxy

\* next() returned: the handler returns
ProxyNextReturns ==
    /\ pxphase = "next"
    /\ pxphase' = "done"
    /\ UNCHANGED <<pxconf, ureq, pxctx, session, upstream, client, upg, bridged, stat, pxnexts>>
    /\ UNCHANGED notProxy

\* a fresh context: Koa's status 404, no body; ws and upgrade as set or not
\* by the upgrade glue or another middleware
NoBody == "unset"
NewContext(ws, upgradable) ==
    [ws |-> ws, upgradable |-> upgradable, handler |-> "", status |-> 404,
     body |-> NoBody, error |-> "", bytes |-> 0,
     headers |-> {}, set |-> {}, aborted |-> FALSE]

ProxyIdle(ctx, conf) ==
    /\ pxconf = conf
    /\ pxctx = ctx
    /\ pxphase = "idle"
    /\ session = [state |-> "none", err |-> ""]
    /\ upstream = NoPeer
    /\ client = NoPeer
    /\ upg = [calls |-> 0, state |-> "none"]
    /\ bridged = "none"
    /\ stat = 0
    /\ pxnexts = 0
    /\ ureq = NoRequest

\* the options of a route: websocket, the two filter lists, the upstream
Upstreams == {[hostname |-> "127.0.0.1", port |-> "8080"],
              [hostname |-> "up.example", port |-> ""]}
ProxyConf(websocket) ==
    [websocket |-> websocket,
     reqHeadersFilter |-> DefaultReqHeadersFilter,
     resHeadersFilter |-> DefaultResHeadersFilter,
     upstream |-> [hostname |-> "127.0.0.1", port |-> "8080"]]

\* the variables when no proxy handler is part of the specification
ProxyOff == ProxyIdle(NewContext(FALSE, FALSE), ProxyConf(FALSE))

ProxyInit ==
    \E ws \in BOOLEAN : \E upgradable \in BOOLEAN : \E websocket \in BOOLEAN :
        ProxyIdle(NewContext(ws, upgradable), ProxyConf(websocket))

\* the headers of client requests and of upstream responses
RequestHeaderSets ==
    {{},
     {<<<<"host">>, "client.example">>, <<<<"cookie">>, "c">>},
     {<<<<":", "authority">>, "client.example">>, <<<<"cookie">>, "c">>,
      <<<<"accept">>, "a">>}}
ResponseHeaderSets ==
    {{},
     {<<<<"content-type">>, "t">>, <<<<"connection">>, "close">>},
     {<<<<":", "status">>, "200">>, <<<<"transfer-encoding">>, "chunked">>,
      <<<<"etag">>, "e">>}}
ReqHeadersFilters == {DefaultReqHeadersFilter, {<<"cookie">>}}
ResHeadersFilters == {DefaultResHeadersFilter, {<<"etag">>}}

\* a route without websocket: every request takes the HTTP branch
ProxyHttpInit ==
    \E headers \in RequestHeaderSets : \E reqFilter \in ReqHeadersFilters :
        \E resFilter \in ResHeadersFilters : \E base \in Upstreams :
            ProxyIdle([NewContext(FALSE, FALSE) EXCEPT !.headers = headers],
                      [ProxyConf(FALSE) EXCEPT !.reqHeadersFilter = reqFilter,
                                               !.resHeadersFilter = resFilter,
                                               !.upstream = base])

ProxyHttpNext ==
    \/ ProxyInvoke
    \/ \E code \in UpstreamStatuses : \E headers \in ResponseHeaderSets :
           UpstreamResponds(code, headers)
    \/ \E chunk \in Chunks : UpstreamData(chunk)
    \/ UpstreamEnds
    \/ UpstreamFails
    \/ UpstreamTimeout
    \/ DestroyReported
    \/ ClientAborts
    \/ RequestResolves
    \/ RequestRejects
    \/ ProxyNextReturns

ProxyNext ==
    \/ ProxyInvoke
    \/ \E outcome \in {"pending", "threw"} : UpstreamOpen(outcome)
    \/ UpgradeResolves
    \/ UpgradeRejects
    \/ \E data \in Msgs : UpstreamMessage(data)
    \/ \E data \in Msgs : ClientMessage(data)
    \/ UpstreamError
    \/ ClientError
    \/ UpstreamClosed
    \/ ClientClosed
    \/ ProxyWsDone
    \/ ProxyWsFailed
    \/ \E code \in UpstreamStatuses : \E headers \in ResponseHeaderSets :
           UpstreamResponds(code, headers)
    \/ \E chunk \in Chunks : UpstreamData(chunk)
    \/ UpstreamEnds
    \/ UpstreamFails
    \/ UpstreamTimeout
    \/ DestroyReported
    \/ ClientAborts
    \/ RequestResolves
    \/ RequestRejects
    \/ ProxyNextReturns

\* a WebSocket that started closing does close (the close timer of the peer)
UpstreamCloseCompletes == upstream.state = "closing" /\ UpstreamClosed
ClientCloseCompletes == client.state = "closing" /\ ClientClosed
ProxyFairness == WF_vars(UpstreamCloseCompletes) /\ WF_vars(ClientCloseCompletes)

(***************************************************************************)
(* Static file handler                                                     *)
(***************************************************************************)
\* A file name, like a request path, is the sequence of its characters.  In a
\* request path "%2e" is one character, an escaped ".", and "%" is an escape
\* that cannot be decoded.

\* options.root of the static module, resolved, and the directory an
\* ExecutionContext resolves file names against
StaticRoot == <<"/", "s">>
Dirname == <<"/", "s">>

\* the file system, by normalised absolute names: /s/a with its two
\* compressed copies, the directory /s/d with the file i, the hidden file
\* /s/.h, and the file /a outside /s
Files ==
    { <<"/", "s", "/", "a">>,
      <<"/", "s", "/", "a", ".", "b", "r">>,
      <<"/", "s", "/", "a", ".", "g", "z">>,
      <<"/", "s", "/", "d", "/", "i">>,
      <<"/", "s", "/", ".", "h">>,
      <<"/", "a">> }
Dirs == { <<"/">>, <<"/", "s">>, <<"/", "s", "/", "d">> }

\* fs.stat: the kind of entry a name leads to, or the code of the error.  A
\* name that goes through a file, or names a file with a trailing separator,
\* is ENOTDIR
fsStat(path) ==
    LET name == pathNormalize(path)
        bare == IF Len(name) > 1 /\ Last(name) = "/" THEN Front(name) ELSE name
        throughFile == \E k \in 1..(Len(bare) - 1) :
                           bare[k + 1] = "/" /\ SubSeq(bare, 1, k) \in Files
    IN IF bare \in Dirs THEN "dir"
       ELSE IF bare \in Files THEN (IF name = bare THEN "file" ELSE "ENOTDIR")
       ELSE IF throughFile THEN "ENOTDIR"
       ELSE "ENOENT"

\* what a stat can come back with: what the file system holds, or an error of
\* the environment (no permission, a name too long for it)
StatOutcomes(path) == {fsStat(path)} \cup {"EACCES", "ENAMETOOLONG"}

\* exists: fs.access succeeded
exists(path) == fsStat(path) \in {"file", "dir"}

\* path.join of two names
joinPath(a, b) == IF b = <<>> THEN pathNormalize(a) ELSE pathNormalize(a \o <<"/">> \o b)

\* decode: decodeURIComponent, or its failure
decodeChar(c) == IF c = "%2e" THEN "." ELSE c
decode(path) ==
    IF \E i \in 1..Len(path) : path[i] = "%"
    THEN [ok |-> FALSE, path |-> <<>>]
    ELSE [ok |-> TRUE, path |-> [i \in 1..Len(path) |-> decodeChar(path[i])]]

\* resolve-path's test for a path that goes up: a ".." segment
UpPath(str) == \E i \in 1..Len(Split(str)) : Split(str)[i] = <<".", ".">>

\* resolvePath(root, path) of resolve-path: 400 for an absolute path, 403 for
\* one that leaves the root, else the normalised join
resolvePath(root, path) ==
    IF path # <<>> /\ Head(path) = "/" THEN [status |-> 400, path |-> <<>>]
    ELSE IF UpPath(pathNormalize(<<".", "/">> \o path))
    THEN [status |-> 403, path |-> <<>>]
    ELSE [status |-> NoStatus, path |-> joinPath(root, path)]

\* isHidden: a part of the path after the root's length starts with "."
isHiddenNever(root, path) == FALSE
isHidden(root, path) ==
    LET pathParts == Split(SubSeq(path, Len(root) + 1, Len(path)))
    IN \E i \in 0..(Len(path) - 1) :
           /\ i < Len(pathParts)
           /\ pathParts[i + 1] # <<>>
           /\ pathParts[i + 1][1] = "."

\* send, lines 61-102: from the argument to the name of the file.  It
\* throws (an error without a status for an empty argument), returns
\* { ok: false } for a hidden file, or goes on with the name
SendPath(conf, arg) ==
    LET trailingSlash == Last(arg) = "/"
        rooted == IF Head(arg) = "/" THEN Tail(arg) ELSE arg
        relative == IF rooted # <<>> /\ Head(rooted) = "/" THEN Tail(rooted) ELSE rooted
        normalizedPath == decode(relative)
        indexed == IF conf.index # <<>> /\ trailingSlash
                   THEN normalizedPath.path \o conf.index
                   ELSE normalizedPath.path
        resolved == IF ~conf.absolute THEN resolvePath(conf.root, indexed)
                    ELSE [status |-> NoStatus, path |-> <<"/">> \o indexed]
    IN IF arg = <<>> THEN [kind |-> "throw", status |-> NoStatus, path |-> <<>>]
       ELSE IF ~normalizedPath.ok THEN [kind |-> "throw", status |-> 400, path |-> <<>>]
       ELSE IF resolved.status # NoStatus
       THEN [kind |-> "throw", status |-> resolved.status, path |-> <<>>]
       ELSE IF ~conf.hidden /\ isHidden(conf.root, resolved.path)
       THEN [kind |-> "return", status |-> NoStatus, path |-> resolved.path]
       ELSE [kind |-> "go", status |-> NoStatus, path |-> resolved.path]

\* one question to the file system
Access(op, path) == [op |-> op, path |-> path]

\* ctx.set and ctx.response.get on the headers of the response
ctxSet(set, name, value) == {p \in set : p[1] # name} \cup {<<name, value>>}
ctxRemove(set, name) == {p \in set : p[1] # name}
ctxHas(set, name) == \E p \in set : p[1] = name

\* the header Accept-Encoding as Negotiator parses it: the encodings listed
\* with their weights (in tenths), and identity added at the end with the
\* least weight listed when the client did not list it
parseAcceptEncoding(accept) ==
    LET listed == {i \in 1..Len(accept) : accept[i].q > 0}
        minQuality == IF listed = {} THEN 10
                      ELSE CHOOSE q \in {accept[i].q : i \in listed} :
                               \A i \in listed : q <= accept[i].q
        hasIdentity == \E i \in 1..Len(accept) : accept[i].encoding = "identity"
    IN IF hasIdentity THEN accept
       ELSE Append(accept, [encoding |-> "identity", q |-> minQuality])

\* Negotiator's priority of one encoding: the weight and the place of the
\* entry that lists it
getEncodingPriority(encoding, accepts) ==
    LET found == {i \in 1..Len(accepts) : accepts[i].encoding = encoding}
    IN IF found = {} THEN [q |-> 0, o |-> 0 - 1]
       ELSE LET best == CHOOSE i \in found : \A j \in found :
                            \/ accepts[j].q < accepts[i].q
                            \/ accepts[j].q = accepts[i].q /\ j <= i
            IN [q |-> accepts[best].q, o |-> best - 1]

\* ctx.acceptsEncodings(encoding, 'identity'): of the two, the one the
\* client gives more weight, or lists first, or neither
acceptsEncodings(accept, encoding) ==
    LET accepts == parseAcceptEncoding(accept)
        mine == getEncodingPriority(encoding, accepts)
        identity == getEncodingPriority("identity", accepts)
    IN IF mine.q > 0 /\ (mine.q > identity.q \/ (mine.q = identity.q /\ mine.o <= identity.o))
       THEN encoding
       ELSE IF identity.q > 0 THEN "identity"
       ELSE "none"

\* the codes of a failed stat that mean the file is not there
NotFoundOnlyNoEntry(code) == code = "ENOENT"
NotFound(code) == code \in {"ENOENT", "ENAMETOOLONG", "ENOTDIR"}
\* the status of the error a failed stat is thrown with
StatErrorStatus(code) == IF NotFound(code) THEN 404 ELSE 500

\* the methods the serve handler sends a file for
SendsForAny(method) == TRUE
SendsFor(method) == method \in {"HEAD", "GET"}

\* the continuation staticModule hands to the serve handler (lines 26-29):
\* it puts ctx.path back and calls next
Restores(ctx, path) == [ctx EXCEPT !.path = path]
CallsNext ==
    /\ stctx' = Restores(stctx, stseen.path)
    /\ stseen' = [stseen EXCEPT !.nexts = Append(@, stctx'.path)]
    /\ stnexts' = stnexts + 1
    /\ stphase' = "next"

\* staticModule, lines 13-26: up to the call of the serve handler
staticModule ==
    /\ stphase = "idle"
    /\ stconf.entry = "static"
    /\ stctx' = [stctx EXCEPT !.handler = "Static",
                              !.path = IF stconf.base # <<>>
                                       THEN replace(@, stconf.base, <<"/">>)
                                       ELSE @]
    /\ stseen' = [stseen EXCEPT !.path = stctx.path]
    /\ stphase' = "serve"
    /\ UNCHANGED <<stconf, stsend, stfs, stnexts>>
    /\ UNCHANGED <<stsize, stlog>>
    /\ UNCHANGED notStatic

\* ExecutionContext.send: the file name is resolved against the directory of
\* the context and sent as an absolute one
ExecutionContextSend ==
    /\ stphase = "idle"
    /\ stconf.entry = "exec"
    /\ stconf' = [stconf EXCEPT !.absolute = TRUE]
    /\ stsend' = [stsend EXCEPT !.called = TRUE, !.arg = joinPath(Dirname, stctx.path)]
    /\ stphase' = "send"
    /\ UNCHANGED <<stctx, stfs, stnexts, stseen>>
    /\ UNCHANGED <<stsize, stlog>>
    /\ UNCHANGED notStatic

\* serve without defer, lines 47-50 and 62: send for GET and HEAD, else next
serve ==
    /\ stphase = "serve"
    /\ ~stconf.defer
    /\ IF SendsFor(stctx.method)
       THEN /\ stsend' = [stsend EXCEPT !.called = TRUE, !.arg = stctx.path]
            /\ stphase' = "send"
            /\ UNCHANGED <<stctx, stnexts, stseen>>
       ELSE /\ CallsNext
            /\ UNCHANGED stsend
    /\ UNCHANGED <<stconf, stfs>>
    /\ UNCHANGED <<stsize, stlog>>
    /\ UNCHANGED notStatic

\* serve with defer, lines 31-32: next first
serveDefer ==
    /\ stphase = "serve"
    /\ stconf.defer
    /\ CallsNext
    /\ UNCHANGED <<stconf, stsend, stfs>>
    /\ UNCHANGED <<stsize, stlog>>
    /\ UNCHANGED notStatic

\* the continuation returns; the handlers behind it have responded or not
NextReturns(handled) ==
    /\ stphase = "next"
    /\ stctx' = IF handled THEN [stctx EXCEPT !.body = "next", !.status = 200] ELSE stctx
    /\ stphase' = IF stconf.defer THEN "deferred" ELSE "done"
    /\ UNCHANGED <<stconf, stsend, stfs, stnexts, stseen>>
    /\ UNCHANGED <<stsize, stlog>>
    /\ UNCHANGED notStatic

\* serve with defer, lines 33-37: after next, send unless the response is
\* already handled
serveDeferred ==
    /\ stphase = "deferred"
    /\ IF SendsFor(stctx.method) /\ stctx.body = NoBody /\ stctx.status = 404
       THEN /\ stsend' = [stsend EXCEPT !.called = TRUE, !.arg = stctx.path]
            /\ stphase' = "send"
       ELSE /\ stphase' = "done"
            /\ UNCHANGED stsend
    /\ UNCHANGED <<stconf, stctx, stfs, stnexts, stseen>>
    /\ UNCHANGED <<stsize, stlog>>
    /\ UNCHANGED notStatic

\* send, lines 61-102
SendResolve ==
    /\ stphase = "send"
    /\ LET r == SendPath(stconf, stsend.arg)
       IN /\ stsend' = [stsend EXCEPT !.resolved = r.path,
                                      !.path = r.path,
                                      !.raised = (r.kind = "throw"),
                                      !.status = r.status,
                                      !.result = IF r.kind = "return" THEN "notok" ELSE @]
          /\ stphase' = IF r.kind = "throw" THEN "raised"
                        ELSE IF r.kind = "return" THEN "returned"
                        ELSE "encoding"
    /\ UNCHANGED <<stconf, stctx, stfs, stnexts, stseen>>
    /\ UNCHANGED <<stsize, stlog>>
    /\ UNCHANGED notStatic

\* the if and the else-if of lines 106-116: brotli when it can be served,
\* otherwise gzip when it can
EncodingGzipFirst(brotli, gzip) == IF gzip THEN "gzip" ELSE IF brotli THEN "br" ELSE ""
Encoding(brotli, gzip) == IF brotli THEN "br" ELSE IF gzip THEN "gzip" ELSE ""

\* send, lines 104-116: the compressed copy of the file, brotli before gzip
SendEncoding ==
    /\ stphase = "encoding"
    /\ LET path == stsend.path
           asksBr == acceptsEncodings(stctx.accept, "br") = "br" /\ stconf.brotli
           brotli == asksBr /\ exists(path \o <<".", "b", "r">>)
           wantsGz == acceptsEncodings(stctx.accept, "gzip") = "gzip" /\ stconf.gzip
           asksGz == ~brotli /\ wantsGz
           encoding == Encoding(brotli, wantsGz /\ exists(path \o <<".", "g", "z">>))
           br == encoding = "br"
           gz == encoding = "gzip"
           encodingExt == IF br THEN <<".", "b", "r">> ELSE IF gz THEN <<".", "g", "z">> ELSE <<>>
       IN /\ stsend' = [stsend EXCEPT !.path = path \o encodingExt,
                                      !.encodingExt = encodingExt,
                                      !.negotiated = TRUE]
          /\ stctx' = IF br \/ gz
                      THEN [stctx EXCEPT !.set = ctxRemove(
                                ctxSet(@, "Content-Encoding", IF br THEN "br" ELSE "gzip"),
                                "Content-Length")]
                      ELSE stctx
          /\ stfs' = stfs
                     \o (IF asksBr THEN <<Access("access", path \o <<".", "b", "r">>)>> ELSE <<>>)
                     \o (IF asksGz THEN <<Access("access", path \o <<".", "g", "z">>)>> ELSE <<>>)
    /\ stphase' = "stat"
    /\ UNCHANGED <<stconf, stnexts, stseen>>
    /\ UNCHANGED <<stsize, stlog>>
    /\ UNCHANGED notStatic

\* send, lines 134-158: stat, the index file of a directory, the errors
SendStat ==
    /\ stphase = "stat"
    /\ \E first \in StatOutcomes(stsend.path) :
        LET indexPath == stsend.path \o <<"/">> \o stconf.index
            toIndex == first = "dir" /\ stconf.format /\ stconf.index # <<>>
        IN \E second \in (IF toIndex THEN StatOutcomes(indexPath) ELSE {first}) :
            LET failed == second \notin {"file", "dir"}
                isDirectory == ~toIndex /\ first = "dir"
            IN /\ stfs' = stfs \o <<Access("stat", stsend.path)>>
                          \o (IF toIndex THEN <<Access("stat", indexPath)>> ELSE <<>>)
               /\ stsend' = [stsend EXCEPT
                                !.path = IF toIndex THEN indexPath ELSE @,
                                !.code = IF failed THEN second ELSE @,
                                !.raised = failed,
                                !.status = IF failed THEN StatErrorStatus(second) ELSE @,
                                !.result = IF isDirectory THEN "dir" ELSE @]
               /\ stphase' = IF failed THEN "raised"
                             ELSE IF isDirectory THEN "returned"
                             ELSE "stream"
    /\ UNCHANGED <<stconf, stctx, stnexts, stseen>>
    /\ UNCHANGED <<stsize, stlog>>
    /\ UNCHANGED notStatic

\* the characters of a Range header: a letter, the digits, and "=", "-", ","
DigitChars == <<"0", "1", "2", "3", "4", "5", "6", "7", "8", "9">>
IsDigit(c) == \E d \in 1..Len(DigitChars) : DigitChars[d] = c
IsWord(c) == IsDigit(c) \/ c = "b"

\* parseInt of a string of digits
RECURSIVE parseInt(_)
parseInt(digits) ==
    IF digits = <<>> THEN 0
    ELSE 10 * parseInt(Front(digits))
         + (CHOOSE d \in 0..9 : DigitChars[d + 1] = Last(digits))

\* the digits a string ends with
RECURSIVE TrailingDigits(_)
TrailingDigits(str) ==
    IF str = <<>> \/ ~IsDigit(Last(str)) THEN <<>>
    ELSE Append(TrailingDigits(Front(str)), Last(str))

\* lines 178-179: /=(.*)$/ takes what follows the first "=", and
\* /^[\w]*?(\d*)-(\d*)$/ wants word characters, one "-" and digits; the
\* first group is the digits before the "-", the second those after it
RangeGroups(rangeHeader) ==
    LET eq == IndexFrom(rangeHeader, <<"=">>, 0)
        rangeValue == SubSeq(rangeHeader, eq + 2, Len(rangeHeader))
        dash == IndexFrom(rangeValue, <<"-">>, 0)
        before == SubSeq(rangeValue, 1, dash)
        after == SubSeq(rangeValue, dash + 2, Len(rangeValue))
    IN IF eq < 0 \/ dash < 0 THEN [ok |-> FALSE, first |-> <<>>, second |-> <<>>]
       ELSE IF /\ \A i \in 1..Len(before) : IsWord(before[i])
               /\ \A i \in 1..Len(after) : IsDigit(after[i])
       THEN [ok |-> TRUE, first |-> TrailingDigits(before), second |-> after]
       ELSE [ok |-> FALSE, first |-> <<>>, second |-> <<>>]

\* lines 181-187: start and end of the range in a file of the given size
RangeEndPastLast(second, size) == IF second # <<>> THEN parseInt(second) ELSE size
RangeEnd(second, size) == IF second # <<>> THEN parseInt(second) ELSE size - 1
RangeOf(groups, size) ==
    LET last == RangeEnd(groups.second, size)
    IN IF groups.first = <<>>
       THEN [start |-> size - last, end |-> size - 1]
       ELSE [start |-> parseInt(groups.first), end |-> last]

\* fs.createReadStream throws for a start or an end below 0 and for a start
\* beyond the end
StreamAcceptsAny(range) == TRUE
StreamAccepts(range) == range.start >= 0 /\ range.end >= 0 /\ range.start <= range.end

\* the bytes of a file of the given size that a read stream from start to
\* end delivers, by their offsets
Bytes(range, size) ==
    LET from == IF range.start < 0 THEN 0 ELSE range.start
        to == IF range.end > size - 1 THEN size - 1 ELSE range.end
    IN [i \in 1..(IF to < from THEN 0 ELSE to - from + 1) |-> from + i - 1]

\* send, lines 160-206: the headers of the file and a read stream of it as
\* the body; with a Range header the part asked for and 206, or 416 and the
\* whole file when the header does not parse or the stream refuses the range
SendStream ==
    /\ stphase = "stream"
    /\ LET length == ctxSet(stctx.set, "Content-Length", stsize)
           ranges == ctxSet(length, "Accept-Ranges", "bytes")
           modified == IF ctxHas(ranges, "Last-Modified") THEN ranges
                       ELSE ctxSet(ranges, "Last-Modified", "mtime")
           cache == IF ctxHas(modified, "Cache-Control") THEN modified
                    ELSE ctxSet(modified, "Cache-Control", "max-age=0")
           groups == RangeGroups(stctx.range)
           range == RangeOf(groups, stsize)
           whole == [start |-> 0, end |-> stsize - 1]
       IN IF stctx.range = <<>>
          THEN stctx' = [stctx EXCEPT !.set = cache, !.body = "stream",
                                      !.file = stsend.path, !.slice = whole,
                                      !.status = 200]
          ELSE IF groups.ok /\ StreamAccepts(range)
          THEN stctx' = [stctx EXCEPT
                            !.set = ctxSet(ctxSet(cache, "Content-Length",
                                                  range.end - range.start + 1),
                                           "Content-Range",
                                           <<"bytes", range.start, range.end, stsize>>),
                            !.body = "stream", !.file = stsend.path,
                            !.slice = range, !.status = 206]
          ELSE stctx' = [stctx EXCEPT
                            !.set = ctxSet(ctxSet(cache, "Content-Length", stsize),
                                           "Content-Range", <<"bytes", "*", stsize>>),
                            !.body = "stream", !.file = stsend.path,
                            !.slice = whole, !.status = 416]
    /\ stfs' = Append(stfs, Access("open", stsend.path))
    /\ stsend' = [stsend EXCEPT !.result = "ok"]
    /\ stphase' = "returned"
    /\ UNCHANGED <<stconf, stnexts, stseen>>
    /\ UNCHANGED <<stsize, stlog>>
    /\ UNCHANGED notStatic

\* serve, lines 51-55 and 62 (line 37 with defer): what follows the result
\* of send
serveResult ==
    /\ stphase = "returned"
    /\ stconf.entry = "static"
    /\ IF stconf.defer \/ stsend.result = "ok"
       THEN /\ stphase' = "done"
            /\ UNCHANGED <<stctx, stnexts, stseen>>
       ELSE IF stsend.result = "dir" /\ stconf.browse
       THEN /\ stphase' = "browse"
            /\ UNCHANGED <<stctx, stnexts, stseen>>
       ELSE CallsNext
    /\ UNCHANGED <<stconf, stsend, stfs>>
    /\ UNCHANGED <<stsize, stlog>>
    /\ UNCHANGED notStatic

\* browse: the listing of the directory, or the error of a failed stat of
\* one of its entries
browse(outcome) ==
    /\ stphase = "browse"
    /\ stfs' = Append(stfs, Access("readdir", stsend.path))
    /\ IF outcome = "listing"
       THEN /\ stctx' = [stctx EXCEPT !.body = "listing", !.status = 200]
            /\ stphase' = "done"
            /\ UNCHANGED stsend
       ELSE /\ stsend' = [stsend EXCEPT !.code = outcome, !.raised = TRUE,
                                        !.status = StatErrorStatus(outcome)]
            /\ stphase' = "raised"
            /\ UNCHANGED stctx
    /\ UNCHANGED <<stconf, stnexts, stseen>>
    /\ UNCHANGED <<stsize, stlog>>
    /\ UNCHANGED notStatic

\* serve, lines 56-60 and 62 (38-44 with defer): a 404 error is swallowed,
\* any other error is thrown on
serveCatch ==
    /\ stphase = "raised"
    /\ stconf.entry = "static"
    /\ IF stsend.status # 404
       THEN /\ stphase' = "threw"
            /\ UNCHANGED <<stctx, stnexts, stseen>>
       ELSE IF stconf.defer
       THEN /\ stphase' = "done"
            /\ UNCHANGED <<stctx, stnexts, stseen>>
       ELSE CallsNext
    /\ UNCHANGED <<stconf, stsend, stfs>>
    /\ UNCHANGED <<stsize, stlog>>
    /\ UNCHANGED notStatic

\* the caller of ExecutionContext.send gets the result or the error of send
ExecutionContextSendReturns ==
    /\ stphase \in {"returned", "raised"}
    /\ stconf.entry = "exec"
    /\ stphase' = IF stphase = "raised" THEN "threw" ELSE "done"
    /\ UNCHANGED <<stconf, stctx, stsend, stfs, stnexts, stseen>>
    /\ UNCHANGED <<stsize, stlog>>
    /\ UNCHANGED notStatic

\* before send was called
NoSend ==
    [called |-> FALSE, arg |-> <<>>, resolved |-> <<>>, path |-> <<>>,
     encodingExt |-> <<>>, negotiated |-> FALSE,
     code |-> "", result |-> "none", raised |-> FALSE, status |-> NoStatus]

StaticIdleSized(conf, ctx, size) ==
    /\ stconf = conf
    /\ stctx = ctx
    /\ stphase = "idle"
    /\ stsend = NoSend
    /\ stfs = <<>>
    /\ stnexts = 0
    /\ stseen = [path |-> <<>>, nexts |-> <<>>]
    /\ stsize = size
    /\ stlog = <<>>
StaticIdle(conf, ctx) == StaticIdleSized(conf, ctx, MaxSize)

\* the options of the static module, with the defaults of send
StaticConf(from, root) ==
    [entry |-> from, root |-> root, base |-> <<>>, hidden |-> FALSE,
     absolute |-> FALSE, index |-> <<>>, format |-> TRUE, defer |-> FALSE,
     browse |-> FALSE, brotli |-> TRUE, gzip |-> TRUE]

\* one entry of an Accept-Encoding header, its weight in tenths
Weighted(encoding, q) == [encoding |-> encoding, q |-> q]

\* a fresh context of a request
StaticContext(method, path, accept) ==
    [method |-> method, path |-> path, accept |-> accept, range |-> <<>>,
     handler |-> "", body |-> NoBody, file |-> <<>>,
     slice |-> [start |-> 0, end |-> 0 - 1], status |-> 404, set |-> {}]

\* the variables when no static handler is part of the specification
StaticOff == StaticIdle(StaticConf("static", StaticRoot), StaticContext("GET", <<"/">>, <<>>))

\* request paths of up to MaxSegs segments: plain, a directory, hidden,
\* going up plainly and escaped, not decodable, and empty
SegPool ==
    { <<"a">>, <<"d">>, <<".", "h">>, <<".", ".">>, <<"%2e", "%2e">>, <<"%">>, <<>> }
SendPaths == { <<"/">> \o Join(segs) : segs \in SeqsUpTo(SegPool, MaxSegs) }

\* request paths below the base /b and outside it
BasePaths ==
    { <<"/", "b", "/", "a">>, <<"/", "b", "/", "d">>, <<"/", "b", "/", ".", "h">>,
      <<"/", "b", "/", "x">>, <<"/", "b">>, <<"/", "a">> }

\* requests that try the names send can be given, with the options that
\* decide what becomes of a name
StaticSendInit ==
    \E path \in SendPaths : \E hidden \in BOOLEAN :
    \E indexFile \in {<<>>, <<"i">>} : \E listing \in BOOLEAN :
    \E absolute \in BOOLEAN : \E from \in {"static", "exec"} :
        /\ from = "exec" => ~absolute /\ ~listing
        /\ StaticIdle([StaticConf(from, IF from = "exec" THEN <<>> ELSE StaticRoot)
                          EXCEPT !.hidden = hidden, !.index = indexFile,
                                 !.browse = listing, !.absolute = absolute],
                      StaticContext("GET", path, <<>>))

\* requests that try the methods, the client's encodings and the options of
\* the module and of serve
StaticServeInit ==
    \E path \in BasePaths : \E method \in {"GET", "HEAD", "POST"} :
    \E accept \in {<<>>, <<Weighted("gzip", 10)>>,
                    <<Weighted("gzip", 10), Weighted("br", 10)>>} :
    \E base \in {<<>>, <<"/", "b">>} : \E defer \in BOOLEAN :
    \E listing \in BOOLEAN : \E hidden \in BOOLEAN :
        StaticIdle([StaticConf("static", StaticRoot)
                       EXCEPT !.base = base, !.defer = defer,
                              !.browse = listing, !.hidden = hidden],
                   StaticContext(method, path, accept))

\* the Accept-Encoding headers of clients: none, a browser's, br first,
\* identity before the others, weights that favour gzip or identity or put
\* identity between the two, br refused
AcceptHeaders ==
    { <<>>,
      <<Weighted("gzip", 10)>>,
      <<Weighted("br", 10)>>,
      <<Weighted("gzip", 10), Weighted("br", 10)>>,
      <<Weighted("br", 10), Weighted("gzip", 10)>>,
      <<Weighted("identity", 10), Weighted("br", 10), Weighted("gzip", 10)>>,
      <<Weighted("br", 5), Weighted("gzip", 10)>>,
      <<Weighted("br", 5), Weighted("gzip", 5), Weighted("identity", 10)>>,
      <<Weighted("br", 5), Weighted("gzip", 10), Weighted("identity", 8)>>,
      <<Weighted("br", 0), Weighted("gzip", 10)>> }

\* requests for a file with and without compressed copies, with the
\* clients' headers and the two options that switch an encoding off
StaticEncodingInit ==
    \E path \in {<<"/", "a">>, <<"/", "d", "/", "i">>} :
    \E accept \in AcceptHeaders : \E brotli \in BOOLEAN : \E gzip \in BOOLEAN :
        StaticIdle([StaticConf("static", StaticRoot)
                       EXCEPT !.brotli = brotli, !.gzip = gzip],
                   StaticContext("GET", path, accept))

\* Range headers: every pairing of a start and an end that is absent,
\* inside or beyond the files, and headers that do not parse
RangeHeader(first, second) == <<"b", "=">> \o first \o <<"-">> \o second
RangeHeaders ==
    { RangeHeader(first, second) :
        first \in {<<>>} \cup {<<DigitChars[n + 1]>> : n \in 0..(MaxSize - 1)},
        second \in {<<>>, <<"9">>} \cup {<<DigitChars[n + 1]>> : n \in 0..(MaxSize - 2)} }
    \cup { <<"b">>, <<"b", "=", "0">>, <<"b", "=", "0", "-", "0", ",", "1", "-", "1">>,
           <<"b", "=", "0", "-", "=", "1">> }

\* requests with a Range header for the file /s/a of every size
StaticRangeInit ==
    \E range \in RangeHeaders : \E size \in 0..MaxSize :
        StaticIdleSized(StaticConf("static", StaticRoot),
                        [StaticContext("GET", <<"/", "a">>, <<>>) EXCEPT !.range = range],
                        size)

StaticInit ==
    \/ StaticSendInit
    \/ StaticServeInit
    \/ StaticEncodingInit
    \/ StaticRangeInit

\* the client sends a further request for the same file, with a Range
\* header of its own, once the one before is answered with the file or a
\* part of it
StaticAgain(range) ==
    /\ stphase = "done"
    /\ stctx.range # <<>>
    /\ stsend.result = "ok"
    /\ Len(stlog) + 1 < MaxRequests
    /\ stlog' = Append(stlog, stctx)
    /\ stctx' = [StaticContext(stctx.method, stseen.path, stctx.accept)
                    EXCEPT !.range = range]
    /\ stphase' = "idle"
    /\ stsend' = NoSend
    /\ stfs' = <<>>
    /\ stnexts' = 0
    /\ stseen' = [path |-> <<>>, nexts |-> <<>>]
    /\ UNCHANGED <<stconf, stsize>>
    /\ UNCHANGED notStatic

StaticNext ==
    \/ staticModule
    \/ ExecutionContextSend
    \/ serve
    \/ serveDefer
    \/ \E handled \in BOOLEAN : NextReturns(handled)
    \/ serveDeferred
    \/ SendResolve
    \/ SendEncoding
    \/ SendStat
    \/ SendStream
    \/ serveResult
    \/ \E outcome \in {"listing", "ENOENT", "EACCES"} : browse(outcome)
    \/ serveCatch
    \/ ExecutionContextSendReturns
    \/ \E range \in RangeHeaders : StaticAgain(range)

(***************************************************************************)
(* ExecutionContext: the routes a module or an app installs                *)
(***************************************************************************)
\* constructor, line 380: the base ends with a separator
BaseOf(base) == IF Last(base) = "/" THEN base ELSE base \o <<"/">>

\* resolveReqPath, lines 391-396 (the test of line 392 accepts every path)
resolveReqPath(base, path) == joinPath(base, path)

\* one route of the PathRouter: router.all, router.get or router.post with
\* the path it was given; `via` and `arg` are the method of the context
\* that was called and its argument, `named` says that the app's wrapper is
\* around the middleware, `callsNext` what the middleware does
Route(method, path, via, arg, named, callsNext) ==
    [method |-> method, path |-> path, via |-> via, arg |-> arg,
     named |-> named, callsNext |-> callsNext]

\* ExecutionContext.use, lines 413-415, of a module that is not an app
ExecutionContextUse(path, callsNext) ==
    /\ xphase = "register"
    /\ xconf.appname = ""
    /\ Len(xrouter) < MaxRoutes
    /\ xrouter' = Append(xrouter, Route("ALL", resolveReqPath(xconf.base, path),
                                        "use", path, FALSE, callsNext))
    /\ UNCHANGED <<xconf, xctx, xphase, xchain, xruns, xouter>>
    /\ UNCHANGED notExec

\* the `this.use` the app module puts in place of it (part_003, 253-258):
\* the middleware goes to the former use inside a wrapper that sets
\* ctx.handler
appUse(path, callsNext) ==
    /\ xphase = "register"
    /\ xconf.appname # ""
    /\ Len(xrouter) < MaxRoutes
    /\ xrouter' = Append(xrouter, Route("ALL", resolveReqPath(xconf.base, path),
                                        "use", path, TRUE, callsNext))
    /\ UNCHANGED <<xconf, xctx, xphase, xchain, xruns, xouter>>
    /\ UNCHANGED notExec

\* ExecutionContext.get, lines 417-419
ExecutionContextGet(path, callsNext) ==
    /\ xphase = "register"
    /\ Len(xrouter) < MaxRoutes
    /\ xrouter' = Append(xrouter, Route("GET", path, "get", path, FALSE, callsNext))
    /\ UNCHANGED <<xconf, xctx, xphase, xchain, xruns, xouter>>
    /\ UNCHANGED notExec

\* ExecutionContext.post, lines 421-423
ExecutionContextPost(path, callsNext) ==
    /\ xphase = "register"
    /\ Len(xrouter) < MaxRoutes
    /\ xrouter' = Append(xrouter, Route("POST", path, "post", path, FALSE, callsNext))
    /\ UNCHANGED <<xconf, xctx, xphase, xchain, xruns, xouter>>
    /\ UNCHANGED notExec

\* the underlying router's test of a literal route against a request: the
\* method, and the path up to a separator at its end
Trimmed(path) == IF Len(path) > 1 /\ Last(path) = "/" THEN Front(path) ELSE path
RouteMatches(route, method, path) ==
    /\ route.method = "ALL" \/ route.method = method
    /\ Trimmed(route.path) = Trimmed(path)

RECURSIVE MatchedRoutes(_, _, _)
MatchedRoutes(routes, method, path) ==
    IF routes = <<>> THEN <<>>
    ELSE (IF RouteMatches(Head(routes), method, path) THEN <<Head(routes)>> ELSE <<>>)
         \o MatchedRoutes(Tail(routes), method, path)

\* a request reaches the PathRouter: the routes that match it form its chain
ExecRequest(method, path) ==
    /\ xphase = "register"
    /\ xctx' = [method |-> method, path |-> path, handler |-> ""]
    /\ xchain' = MatchedRoutes(xrouter, method, path)
    /\ xphase' = "down"
    /\ UNCHANGED <<xconf, xrouter, xruns, xouter>>
    /\ UNCHANGED notExec

\* mount, line 405: `ctx.path.replace(this.base, '/')`
Rebased(path, base) == replace(path, base, <<"/">>)

\* mount, lines 406-409: ctx.path when the middleware has come to its end,
\* with the continuation called (it put `original` back) or not
Left(original, inner, continued) == IF continued THEN original ELSE inner

\* the app's wrapper, line 255: ctx.handler when the middleware starts
HandlerOf(route, handler) == IF route.named THEN xconf.appname ELSE handler

\* the middleware mount returns (lines 403-410) is entered: it keeps
\* ctx.path, rebases it and runs the wrapped middleware, which calls its
\* continuation, and with it the next route of the chain, or returns
mount ==
    /\ xphase = "down"
    /\ Len(xruns) < Len(xchain)
    /\ LET route == xchain[Len(xruns) + 1]
           original == xctx.path
           inner == Rebased(original, xconf.base)
           handler == HandlerOf(route, xctx.handler)
       IN /\ xruns' = Append(xruns, [route |-> route, original |-> original,
                                     inner |-> inner, handler |-> handler,
                                     continued |-> route.callsNext,
                                     cont |-> IF route.callsNext THEN original ELSE <<>>])
          /\ xctx' = [xctx EXCEPT !.path = Left(original, inner, route.callsNext),
                                  !.handler = handler]
          /\ xphase' = IF route.callsNext THEN "down" ELSE "up"
    /\ UNCHANGED <<xconf, xrouter, xchain, xouter>>
    /\ UNCHANGED notExec

\* the last route of the chain called its continuation: the one given to
\* the PathRouter runs
mountOuter ==
    /\ xphase = "down"
    /\ Len(xruns) = Len(xchain)
    /\ xouter' = Append(xouter, xctx.path)
    /\ xphase' = "up"
    /\ UNCHANGED <<xconf, xrouter, xctx, xchain, xruns>>
    /\ UNCHANGED notExec

\* every middleware entered returns
mountReturns ==
    /\ xphase = "up"
    /\ xphase' = "done"
    /\ UNCHANGED <<xconf, xrouter, xctx, xchain, xruns, xouter>>
    /\ UNCHANGED notExec

ExecIdle(base, appname) ==
    /\ xconf = [base |-> BaseOf(base), appname |-> appname]
    /\ xrouter = <<>>
    /\ xctx = [method |-> "GET", path |-> <<"/">>, handler |-> ""]
    /\ xphase = "register"
    /\ xchain = <<>>
    /\ xruns = <<>>
    /\ xouter = <<>>

ExecOff == ExecIdle(<<"/">>, "")

\* the paths a module is bound to in the config, the names of the apps, the
\* paths a module registers and the requests
ExecBases == { <<"/">>, <<"/", "a">>, <<"/", "a", "/">> }
AppNames == {"", "chat"}
SubPaths == { <<"/">>, <<"/", "c">> }
ExecMethods == {"GET", "POST"}
ExecPaths == { <<"/">>, <<"/", "c">>, <<"/", "a">>, <<"/", "a", "/">>,
               <<"/", "a", "/", "c">> }

ExecInit == \E base \in ExecBases, appname \in AppNames : ExecIdle(base, appname)

ExecNext ==
    \/ \E path \in SubPaths, callsNext \in BOOLEAN : ExecutionContextUse(path, callsNext)
    \/ \E path \in SubPaths, callsNext \in BOOLEAN : appUse(path, callsNext)
    \/ \E path \in SubPaths, callsNext \in BOOLEAN : ExecutionContextGet(path, callsNext)
    \/ \E path \in SubPaths, callsNext \in BOOLEAN : ExecutionContextPost(path, callsNext)
    \/ \E method \in ExecMethods, path \in ExecPaths : ExecRequest(method, path)
    \/ mount
    \/ mountOuter
    \/ mountReturns

(***************************************************************************)
(* Router.parseSiteConfig: the route entries of a site                     *)
(***************************************************************************)
\* one entry of the site's config: its key and the fields of its value
ConfigEntry(key, rewrite, redirect, code, handlers) ==
    [key |-> key, rewrite |-> rewrite, redirect |-> redirect, code |-> code,
     handlers |-> handlers]

\* lines 123-125: a key that starts with "^" loses it and gains "(.*)"
RoutePathOf(key) == IF key = "^/" THEN "/(.*)" ELSE key

\* lines 126-133: one rewrite layer for each declared pair, in their order
RECURSIVE RewriteLayers(_, _)
RewriteLayers(path, rewrite) ==
    IF rewrite = <<>> THEN <<>>
    ELSE <<Layer("rewrite", path, Head(rewrite)[1], Head(rewrite)[2], NoCode)>>
         \o RewriteLayers(path, Tail(rewrite))

\* lines 134-139 and 147: what follows the rewrites of an entry, a redirect
\* or the stack of the path when the first handler asks for one
RuleLayers(path, conf) ==
    IF conf.redirect # "" THEN <<Layer("redirect", path, <<>>, conf.redirect, conf.code)>>
    ELSE IF conf.handlers # <<>> /\ ~HasStack(path) THEN <<StackLayer(path)>>
    ELSE <<>>

\* the layers one entry adds to the router, in the order of lines 126-147
EntryLayersRuleFirst(path, conf) == RuleLayers(path, conf) \o RewriteLayers(path, conf.rewrite)
EntryLayers(path, conf) == RewriteLayers(path, conf.rewrite) \o RuleLayers(path, conf)

\* lines 134-138: `continue` after a redirect; else line 147, addRoute with
\* the handlers of the entry
HandlersOf(conf) == IF conf.redirect # "" THEN <<>> ELSE conf.handlers

RECURSIVE PushModules(_, _)
PushModules(stack, mods) ==
    IF mods = <<>> THEN stack
    ELSE PushModules(PushModule(stack, Head(mods)), Tail(mods))

RECURSIVE ModuleCalls(_, _)
ModuleCalls(path, mods) ==
    IF mods = <<>> THEN <<>>
    ELSE <<[path |-> path, mod |-> Head(mods)]>> \o ModuleCalls(path, Tail(mods))

\* parseSiteConfig, lines 122-148: one turn of the loop over the entries
parseSiteConfig ==
    /\ pphase = "build"
    /\ parsed < Len(sconf)
    /\ LET conf == sconf[parsed + 1]
           path == RoutePathOf(conf.key)
           handlers == HandlersOf(conf)
       IN /\ router' = router \o EntryLayers(path, conf)
          /\ stacks' = IF handlers = <<>> THEN stacks
                        ELSE [StacksAfterGetStack(path) EXCEPT
                                 ![path].mods = PushModules(@, handlers)]
          /\ calls' = calls \o ModuleCalls(path, handlers)
    /\ parsed' = parsed + 1
    /\ UNCHANGED <<sconf, pphase, pctx, entry, chain, seen, nexts, pouter>>
    /\ UNCHANGED notConfig

\* the keys, the rewrites and the values of the entries of a config
ConfigKeys == {"^/", "/a"}
ConfigRewrites ==
    SeqsUpTo({ <<<<"a">>, <<"b">>>>, <<<<"/", "b">>, <<"/", "a">>>> }, MaxRewrites)
ConfigModules(names) ==
    [i \in 1..Len(names) |-> CHOOSE mod \in Modules : mod.name = names[i]]
ConfigEntries ==
    { ConfigEntry(key, rewrite, rule[1], rule[2], ConfigModules(rule[3])) :
        key \in ConfigKeys, rewrite \in ConfigRewrites,
        rule \in { <<"", NoCode, <<>>>>,
                   <<"", NoCode, <<"static">>>>,
                   <<"", NoCode, <<"app", "echo">>>>,
                   <<"https://a.com/", NoCode, <<>>>>,
                   <<"https://a.com/", 302, <<"static">>>> } }

\* a config has each key once
Configs ==
    { <<>> } \cup { <<e>> : e \in ConfigEntries }
    \cup { pair \in ConfigEntries \X ConfigEntries : pair[1].key # pair[2].key }

ConfigOff == sconf = <<>> /\ parsed = 0
ConfigInit == sconf \in Configs /\ parsed = 0

\* the requests to a site that was configured
ConfigPaths == { <<"/">>, <<"/", "a">>, <<"/", "b">> }

\* the server takes requests once the config is parsed
ConfigProcess(path) == parsed = Len(sconf) /\ PathProcess(path)

ConfigNext ==
    \/ parseSiteConfig
    \/ \E path \in ConfigPaths : ConfigProcess(path)
    \/ Enter
    \/ EnterOuter
    \/ Unwind

(***************************************************************************)
(* Statistics                                                              *)
(***************************************************************************)
\* the periods record() gives to vaccumTime, in seconds, and the
\* milliseconds of a second
Period1min == 60
Period5min == 300
Period15min == 900
Millis == 1000

\* `now - time > period * 1000`
Expired(now, time, period) == now - time > period * Millis

\* vaccumTime, lines 31-39: `for (const time of last)` reads last[i] with
\* an index that goes up by one each turn, while shift() takes the first
\* element away and moves the others down
RECURSIVE vaccumFrom(_, _, _, _)
vaccumFrom(now, period, last, i) ==
    IF i >= Len(last) THEN last
    ELSE IF Expired(now, last[i + 1], period)
    THEN vaccumFrom(now, period, Tail(last), i + 1)
    ELSE last

vaccumTime(now, period, last) == vaccumFrom(now, period, last, 0)

\* record(), lines 12-22, with Date.now() = now
record(now) ==
    /\ count < MaxRecords
    /\ now >= clock
    /\ count' = count + 1
    /\ clock' = now
    /\ last1min' = vaccumTime(now, Period1min, Append(last1min, now))
    /\ last5min' = vaccumTime(now, Period5min, Append(last5min, now))
    /\ last15min' = vaccumTime(now, Period15min, Append(last15min, now))
    /\ UNCHANGED notStat

StatOff == count = 0 /\ last1min = <<>> /\ last5min = <<>> /\ last15min = <<>> /\ clock = 0
StatInit == StatOff

\* the time between two calls of record(), in milliseconds: none, a
\* second, and just over each of the periods
Advances == {0, 1000, 61000, 301000, 901000}

StatNext == \E advance \in Advances : record(clock + advance)


(***************************************************************************)
(* UpgradableResponse: properties                                          *)
(***************************************************************************)
\* a step in which one of the given methods was called
CallOf(ops) == call'.n # call.n /\ call'.op \in ops

\* C11: once headersSent is true it stays true, and every later setHeader,
\* removeHeader or writeHead throws 'Headers have already been sent' and
\* leaves the header map as it was.
C11_HeadersSent ==
    [][/\ resp.headersSent => resp'.headersSent
       /\ resp.headersSent /\ CallOf({"setHeader", "removeHeader", "writeHead"})
            => /\ call'.err = "Headers have already been sent"
               /\ resp'.headers = resp.headers]_vars

\* a header mutation was refused after the first body write sent the head
C11_Witness ==
    /\ resp.headersSent
    /\ resp.headers # <<>>
    /\ \E i \in 1..Len(socket) : socket[i].t = "body"
    /\ call.op = "setHeader"
    /\ call.err = "Headers have already been sent"

\* C12: after upgrade (state upgraded) every setHeader, removeHeader and
\* further upgrade throws 'Headers have already been sent', and so does
\* upgrade once the head was sent (state responding).
C12_LeftBuffering ==
    [][/\ resp.upgraded /\ CallOf({"setHeader", "removeHeader", "upgrade"})
            => call'.err = "Headers have already been sent"
       /\ resp.headersSent /\ CallOf({"upgrade"})
            => call'.err = "Headers have already been sent"]_vars

\* C13: in state upgraded nothing the response writes reaches the socket,
\* and when the stream finishes with the client WebSocket open, the
\* WebSocket is closed exactly once, with 1011 if statusCode is 500 and
\* with 1000 otherwise.
C13_Upgraded ==
    [][/\ resp'.upgraded => \A i \in 1..Len(socket') : socket'[i].by # "res"
       /\ Len(wsock'.closes) <= 1
       /\ wsock'.closes # <<>> => resp'.finished
       /\ resp.upgraded /\ ~resp.finished /\ resp'.finished /\ wsock.state = "open"
            => wsock'.closes = <<IF resp.statusCode = 500 THEN 1011 ELSE 1000>>]_vars

\* an upgraded response with status 500 finished after writes and closed
\* its open client with 1011
C13_Witness ==
    /\ resp.upgraded /\ resp.finished /\ resp.headersSent
    /\ resp.statusCode = 500
    /\ wsock.closes = <<1011>>
    /\ \E i \in 1..Len(socket) : socket[i].t = "handshake"

\* the body chunks on the socket, in order
Bodies(sock) ==
    LET chunks == SelectSeq(sock, LAMBDA e : e.t = "body")
    IN [i \in 1..Len(chunks) |-> chunks[i].value]

\* the chunks accepted by write so far: those on the socket, then those buffered
Accepted(sock, st) == Bodies(sock) \o st.buffer

\* the status line, the header lines, a blank line, then body chunks only,
\* then at most one end, which is last
HeadBodyEnd(sock) ==
    sock # <<>> =>
        \E k \in 2..Len(sock) :
            /\ sock[1].t = "status"
            /\ sock[k].t = "blank"
            /\ \A i \in 2..(k - 1) : sock[i].t = "header"
            /\ \A i \in (k + 1)..Len(sock) :
                   sock[i].t = "body" \/ (i = Len(sock) /\ sock[i].t = "end")

\* C14: for a response that is never upgraded the head is written exactly
\* once, before every body chunk and before the socket is ended (also with
\* an empty body), the body chunks follow in write order, and the socket is
\* ended exactly once, when the stream finishes.
C14_HeadFirst ==
    [][~resp'.upgraded =>
          /\ HeadBodyEnd(socket')
          /\ resp'.finished <=> (socket' # <<>> /\ Last(socket').t = "end")
          /\ IF CallOf({"write"}) /\ call'.err = "none"
             THEN Accepted(socket', stream') = Append(Accepted(socket, stream), call'.arg)
             ELSE Accepted(socket', stream') = Accepted(socket, stream)]_vars

\* a finished response whose head with a header line was followed by two
\* chunks in write order and the end of the socket
C14_Witness ==
    /\ ~resp.upgraded /\ resp.finished
    /\ Len(socket) = 6
    /\ socket[2].t = "header"
    /\ Bodies(socket) = <<"x", "y">>
    /\ socket[6].t = "end"

(***************************************************************************)
(* proxy and wsforward: properties                                         *)
(***************************************************************************)
\* C15: the proxy handler opens an upstream WebSocket only for an upgrade
\* request (ctx.ws set, ctx.upgrade callable) on a route with websocket
\* enabled; in every other case it takes the HTTP path and never calls
\* ctx.upgrade.
C15_WebSocketOnly ==
    LET permitted == pxctx.ws /\ pxctx.upgradable /\ pxconf.websocket
    IN /\ upstream.state # "none" => permitted
       /\ pxphase # "idle" /\ ~permitted
            => /\ pxctx.handler = "Proxy"
               /\ pxphase \in {"http", "next", "done", "threw"}
               /\ upstream.state = "none"
               /\ upg.calls = 0

\* an upgrade request on a route without websocket was answered over HTTP
C15_Witness ==
    /\ pxctx.ws /\ pxctx.upgradable /\ ~pxconf.websocket
    /\ pxphase = "done"
    /\ pxctx.handler = "Proxy"
    /\ pxctx.body = "xy"

\* C16: ctx.upgrade() is called at most once per session, and only when the
\* upstream WebSocket emits `open`; when the upstream fails before open it
\* is never called.
C16_UpgradeAfterOpen ==
    [][/\ upg'.calls # upg.calls
            => /\ upg.calls = 0 /\ upg'.calls = 1
               /\ upstream.state = "connecting" /\ upstream'.state = "open"
       /\ upstream.state = "connecting" /\ upstream'.state # "open"
            => upg'.calls = 0
       /\ upstream.state \in {"closing", "closed"} /\ upg.calls = 0
            => upg'.calls = 0]_vars

\* the upstream opened, upgrade() was called once and the bridge is up
C16_Witness ==
    /\ upg.calls = 1
    /\ upg.state = "resolved"
    /\ upstream.state = "open" /\ client.state = "open"

\* the upstream WebSocket failed before it opened, and the handler has
\* handled the failure
FailedBeforeOpen ==
    /\ pxctx.handler = "ProxyWS"
    /\ session.state = "rejected"
    /\ upg.calls = 0
    /\ pxphase \in {"next", "done"}

\* C17: when the upstream WebSocket fails before open, the handler sets
\* status 200 with an empty body, stores the error in ctx.error and calls
\* next exactly once.
C17_FallThrough ==
    /\ pxnexts <= 1
    /\ FailedBeforeOpen
         => /\ pxctx.status = 200
            /\ pxctx.body = ""
            /\ pxctx.error = "upstream error"
            /\ pxnexts = 1

\* the handler returned after falling through on an upstream failure
C17_Witness == FailedBeforeOpen /\ pxphase = "done" /\ pxnexts = 1

\* C18: when the upstream WebSocket fails before open, the handler clears
\* the WebSocket flag: ctx.ws is false for the handlers that run after the
\* fall-through.
C18_FlagCleared == FailedBeforeOpen => ~pxctx.ws

\* the forwarder is installed and both peers are open
BridgeOpen ==
    bridged = "live" /\ upstream.state = "open" /\ client.state = "open"

\* C19: on an established bridge every message received from the client
\* while both peers are open is sent to the upstream exactly once, every
\* message received from the upstream is sent to the client exactly once,
\* and each direction keeps the order of arrival.
C19_Forward ==
    [][/\ BridgeOpen /\ client'.recv # client.recv
            => upstream'.sent = Append(upstream.sent, Last(client'.recv))
       /\ BridgeOpen /\ upstream'.recv # upstream.recv
            => client'.sent = Append(client.sent, Last(upstream'.recv))
       /\ client'.recv = client.recv => upstream'.sent = upstream.sent
       /\ upstream'.recv = upstream.recv => client'.sent = client.sent]_vars

\* two client frames reached the upstream in order, one came back
C19_Witness ==
    /\ BridgeOpen
    /\ client.recv = <<"m", "n">> /\ upstream.sent = <<"m", "n">>
    /\ upstream.recv = <<"n">> /\ client.sent = <<"n">>

\* a peer that closed or failed
Gone(peer) == peer.state \in {"closing", "closed"}

\* C20: on an established bridge a `close` of either peer calls close on
\* the other and resolves the session, an `error` of either peer rejects
\* the session and closes the other; the session always settles, and when
\* one peer has closed or failed both peers end up closed.
C20_Teardown ==
    /\ [][bridged = "live" =>
            /\ upstream.state # "closed" /\ upstream'.state = "closed"
                 => /\ client'.closeCalls = client.closeCalls + 1
                    /\ session.state = "pending" => session'.state = "resolved"
            /\ client.state # "closed" /\ client'.state = "closed"
                 => /\ upstream'.closeCalls = upstream.closeCalls + 1
                    /\ session.state = "pending" => session'.state = "resolved"
            /\ upstream.state = "open" /\ upstream'.state = "closing"
                   /\ upstream'.closeCalls = upstream.closeCalls
                 => /\ client'.closeCalls = client.closeCalls + 1
                    /\ session.state = "pending" => session'.state = "rejected"
            /\ client.state = "open" /\ client'.state = "closing"
                   /\ client'.closeCalls = client.closeCalls
                 => /\ upstream'.closeCalls = upstream.closeCalls + 1
                    /\ session.state = "pending" => session'.state = "rejected"
            /\ Gone(upstream') \/ Gone(client') => session'.state # "pending"]_vars
    /\ (bridged = "live" /\ (Gone(upstream) \/ Gone(client)))
         ~> (/\ upstream.state = "closed" /\ client.state = "closed"
             /\ session.state \in {"resolved", "rejected"})

\* the client failed on a live bridge: the session rejected with its error
\* and both peers are closed
C20_Witness ==
    /\ bridged = "live"
    /\ session = [state |-> "rejected", err |-> "client error"]
    /\ upstream.state = "closed" /\ client.state = "closed"
    /\ upstream.closeCalls > 0

\* the byteLength of the frames of a sequence, added up
RECURSIVE SumBytes(_)
SumBytes(frames_) ==
    IF frames_ = <<>> THEN 0
    ELSE ByteLength(Head(frames_)) + SumBytes(Tail(frames_))

\* C21: when a WebSocket proxy session has ended, ctx.bytes equals the sum
\* of the byteLength of all frames forwarded in both directions (those sent
\* to the upstream plus those sent to the client).
C21_Bytes ==
    pxctx.handler = "ProxyWS" /\ bridged = "live" /\ pxphase \in {"next", "done"}
        => pxctx.bytes = SumBytes(upstream.sent) + SumBytes(client.sent)

\* C22: in HTTP proxy mode, once the upstream response was received in
\* full, the handler sets the body to the upstream body, the status to the
\* upstream status (503 when it is absent), copies the upstream headers the
\* filter lets through, and calls next exactly once; before that it calls
\* next not at all.
C22_HttpResponse ==
    pxctx.handler = "Proxy" =>
        /\ pxnexts <= 1
        /\ pxnexts = 1 <=> pxphase \in {"next", "done"}
        /\ pxphase \in {"next", "done"} =>
              /\ ureq.state = "ended"
              /\ pxctx.body = Concat(ureq.chunks)
              /\ pxctx.status = IF ureq.status = 0 THEN 503 ELSE ureq.status
              /\ pxctx.set = {p \in ureq.resHeaders :
                                 /\ p[1][1] # ":"
                                 /\ p[1] \notin pxconf.resHeadersFilter}

\* an upstream response without status, with a body of two chunks and with
\* headers of which some were filtered, was handed on
C22_Witness ==
    /\ pxctx.handler = "Proxy" /\ pxphase = "done" /\ pxnexts = 1
    /\ pxctx.status = 503
    /\ pxctx.body = "xy"
    /\ pxctx.set # {} /\ pxctx.set # ureq.resHeaders

\* C23: no client request header that starts with `:` or is in the request
\* filter list is forwarded upstream; the Host header sent upstream is the
\* host of the configured upstream including its port, never the client's
\* Host; no upstream response header that starts with `:` or is in the
\* response filter list is copied to the client response.
C23_Headers ==
    ureq.state # "none" =>
        /\ \A p \in ureq.headers : p[1][1] # ":"
        /\ \A p \in ureq.headers :
               p[1] \in pxconf.reqHeadersFilter => p \notin pxctx.headers
        /\ \A p \in ureq.headers :
               p[1] = <<"host">> =>
                   /\ p[2] = (IF pxconf.upstream.port = ""
                              THEN pxconf.upstream.hostname
                              ELSE pxconf.upstream.hostname \o ":" \o pxconf.upstream.port)
                   /\ p \notin pxctx.headers
        /\ \E p \in ureq.headers : p[1] = <<"host">>
        /\ \A p \in pxctx.set :
               p[1][1] # ":" /\ p[1] \notin pxconf.resHeadersFilter

\* C24: when the upstream request fails before a response was received,
\* the handler ends with status 503 and throws nothing.
C24_Upstream503 ==
    pxctx.handler = "Proxy" /\ ureq.promise = "rejected" /\ pxphase # "http"
        => pxphase # "threw" /\ pxctx.status = 503

\* C25: a client abort and an upstream timeout each destroy the upstream
\* request that is in flight, and afterwards the handler never sets a
\* response body from that request.
C25_Cancel ==
    [][/\ ~pxctx.aborted /\ pxctx'.aborted /\ ureq.state \in {"sent", "response"}
            => ureq'.state = "destroyed"
       /\ ureq.state = "destroyed" => pxctx'.body = pxctx.body]_vars

(***************************************************************************)
(* Static file handler: properties                                         *)
(***************************************************************************)
\* the directory a send has to stay in: the root of the static module, the
\* directory of the ExecutionContext
Confine == IF stconf.entry = "exec" THEN Dirname ELSE stconf.root

\* a name, once normalised, starts with the name of the directory root
Within(root, path) ==
    LET name == pathNormalize(path)
    IN Len(name) >= Len(root) /\ SubSeq(name, 1, Len(root)) = root

\* the argument of send without its leading separators, decoded
RECURSIVE Unrooted(_)
Unrooted(path) ==
    IF path # <<>> /\ Head(path) = "/" THEN Unrooted(Tail(path)) ELSE path
Requested == decode(Unrooted(stsend.arg))

\* send has turned its argument into a file name, or has given up on it
NameResolved == stsend.called /\ stphase # "send"

\* the decoded argument leads out of the directory
Escapes ==
    /\ Requested.ok
    /\ ~Within(Confine, (IF stconf.entry = "exec" THEN <<>> ELSE Confine)
                        \o <<"/">> \o Requested.path)

\* C26: every file send asks the file system about (access, stat, open,
\* readdir) has a normalised absolute name that starts with the root, and an
\* argument that leads out of the root is refused with 403 before the file
\* system is asked anything
C26_Containment ==
    /\ \A i \in 1..Len(stfs) : Within(Confine, stfs[i].path)
    /\ NameResolved /\ Escapes
           => stsend.raised /\ stsend.status = 403 /\ stfs = <<>>

\* C27: the serve handler without defer calls next without a send for a
\* method other than GET and HEAD; for GET and HEAD it calls next only after
\* a send that did not succeed and without a listing rendered; never twice
C27_Next ==
    stconf.entry = "static" /\ ~stconf.defer =>
        /\ stctx.method \notin {"GET", "HEAD"} =>
              /\ ~stsend.called
              /\ stfs = <<>>
              /\ stphase \in {"next", "done"} => stnexts = 1
        /\ stctx.method \in {"GET", "HEAD"} /\ stnexts > 0 =>
              /\ stsend.called
              /\ stsend.result # "ok"
              /\ stctx.body \notin {"stream", "listing"}
              /\ stnexts = 1

\* a GET for a directory, no listing asked for: the handler went on to next
C27_Witness ==
    /\ stconf.entry = "static"
    /\ ~stconf.defer
    /\ stctx.method = "GET"
    /\ stsend.result = "dir"
    /\ stphase = "done"
    /\ stnexts = 1

\* C28: with a base that ctx.path starts with, send is given ctx.path with
\* the base replaced by "/", and every call of next, and whatever runs
\* during it, finds ctx.path as it was on entry
C28_Base ==
    /\ stconf.entry = "static"
    /\ stconf.base # <<>>
    /\ stphase # "idle"
    /\ Len(stseen.path) >= Len(stconf.base)
    /\ SubSeq(stseen.path, 1, Len(stconf.base)) = stconf.base
    => /\ stsend.called =>
              stsend.arg = <<"/">> \o SubSeq(stseen.path, Len(stconf.base) + 1,
                                             Len(stseen.path))
       /\ \A i \in 1..Len(stseen.nexts) : stseen.nexts[i] = stseen.path
       /\ stphase = "next" => stctx.path = stseen.path

\* a stat of send, or of the listing, has failed with a code that means
\* the file is not there
StatNotFound == stsend.code \in {"ENOENT", "ENAMETOOLONG", "ENOTDIR"}

\* C29 as stated: after a stat that found no file the request ends with
\* status 404, after any other failed stat with a 500 error, and no file is
\* streamed
C29_Responds404 ==
    stconf.entry = "static" /\ stsend.code # "" =>
        /\ stctx.body # "stream"
        /\ StatNotFound /\ stphase = "done" => stctx.status = 404
        /\ ~StatNotFound => stsend.status = 500 /\ stphase \in {"raised", "threw"}

\* C29: after a stat that found no file send throws a 404 error, which the
\* handler swallows: it leaves status and body alone and calls next once
\* (without defer) or returns (with defer, where the status still is 404);
\* after any other failed stat a 500 error leaves the handler; no file is
\* opened or streamed
C29_StatErrors ==
    stconf.entry = "static" /\ stsend.code # "" =>
        /\ stctx.body # "stream"
        /\ \A i \in 1..Len(stfs) : stfs[i].op # "open"
        /\ StatNotFound =>
              /\ stsend.status = 404
              /\ stphase \in {"raised", "next", "done"}
              /\ stphase = "raised" => stctx.status = 404 /\ stctx.body = NoBody
              /\ ~stconf.defer =>
                    /\ stphase = "next" => stctx.status = 404 /\ stctx.body = NoBody
                    /\ stphase \in {"next", "done"} => stnexts = 1
              /\ stconf.defer /\ stphase = "done" =>
                    stctx.status = 404 /\ stctx.body = NoBody
        /\ ~StatNotFound => stsend.status = 500 /\ stphase \in {"raised", "threw"}

\* the name of a file went through a file: the handler is in next
C29_Witness ==
    /\ stconf.entry = "static"
    /\ stsend.code = "ENOTDIR"
    /\ stphase = "next"
    /\ stnexts = 1
    /\ stctx.status = 404

\* the name send resolved starts with the root and has, after it, a segment
\* that starts with "."
DotSegment ==
    LET rest == Split(SubSeq(stsend.resolved, Len(stconf.root) + 1, Len(stsend.resolved)))
    IN /\ Len(stsend.resolved) >= Len(stconf.root)
       /\ SubSeq(stsend.resolved, 1, Len(stconf.root)) = stconf.root
       /\ \E i \in 1..Len(rest) : rest[i] # <<>> /\ Head(rest[i]) = "."

\* C30: for a resolved name with a dot segment and without the hidden
\* option, send sets no body and no header, asks the file system nothing and
\* returns; the static handler calls next, once
C30_Hidden ==
    NameResolved /\ ~stconf.hidden /\ DotSegment =>
        /\ stctx.body # "stream"
        /\ stctx.file = <<>>
        /\ stctx.set = {}
        /\ stfs = <<>>
        /\ stsend.result = "notok"
        /\ stphase \in {"returned", "next", "done"}
        /\ stconf.entry = "static" /\ stphase \in {"next", "done"} => stnexts = 1

\* a request for the hidden file /s/.h has fallen through
C30_Witness ==
    /\ stconf.entry = "static"
    /\ ~stconf.hidden
    /\ stsend.resolved = <<"/", "s", "/", ".", "h">>
    /\ stphase = "done"
    /\ stnexts = 1
    /\ stctx.file = <<>>

\* the client lists the encoding, with a weight above 0
Lists(encoding) ==
    \E i \in 1..Len(stctx.accept) :
        stctx.accept[i].encoding = encoding /\ stctx.accept[i].q > 0

\* the client lists the encoding and does not rank identity above it: it
\* leaves identity out, or gives it less weight, or the same weight further
\* back in the header
Prefers(encoding) ==
    \E i \in 1..Len(stctx.accept) :
        /\ stctx.accept[i].encoding = encoding
        /\ stctx.accept[i].q > 0
        /\ \A j \in 1..Len(stctx.accept) :
               stctx.accept[j].encoding = "identity" =>
                   \/ stctx.accept[j].q < stctx.accept[i].q
                   \/ stctx.accept[j].q = stctx.accept[i].q /\ i < j

\* the file send resolved has a brotli and a gzip copy
BothCopies ==
    /\ exists(stsend.resolved \o <<".", "b", "r">>)
    /\ exists(stsend.resolved \o <<".", "g", "z">>)

\* send has chosen the brotli copy: its name, the header, and the file
\* streamed if one is
BrotliChosen ==
    /\ stsend.encodingExt = <<".", "b", "r">>
    /\ <<"Content-Encoding", "br">> \in stctx.set
    /\ stsend.result = "ok" => stctx.file = stsend.resolved \o <<".", "b", "r">>

Ranged == stsend.result = "ok" /\ stctx.range # <<>>

\* the bytes of the body, by their offsets in the file
Body == Bytes(stctx.slice, stsize)

\* the offsets start..end, whether the file has them or not
Span(first, last) ==
    [i \in 1..(IF last < first THEN 0 ELSE last - first + 1) |-> first + i - 1]

\* the response 206 for the range start..end
Partial(range) ==
    /\ stctx.status = 206
    /\ <<"Content-Range", <<"bytes", range.start, range.end, stsize>>>> \in stctx.set
    /\ <<"Content-Length", range.end - range.start + 1>> \in stctx.set
    /\ stctx.slice = range

\* the response 416 with the whole file
Unsatisfied ==
    /\ stctx.status = 416
    /\ <<"Content-Range", <<"bytes", "*", stsize>>>> \in stctx.set
    /\ <<"Content-Length", stsize>> \in stctx.set
    /\ Body = Span(0, stsize - 1)

ContentLength(ctx) == (CHOOSE p \in ctx.set : p[1] = "Content-Length")[2]

\* the client asked for the first n bytes of the file and then for the rest,
\* and has both answers
Halves(n) ==
    /\ Len(stlog) = 1
    /\ stlog[1].range = RangeHeader(<<DigitChars[1]>>, <<DigitChars[n]>>)
    /\ stctx.range = RangeHeader(<<DigitChars[n + 1]>>, <<>>)
    /\ stphase = "done"
    /\ stsend.result = "ok"

\* C33: for a file of total >= 1 bytes and 0 < n < total, the body of the
\* answer to bytes=0-(n-1) followed by the body of the answer to bytes=n- is
\* the whole file, no byte is in both, and the two Content-Length values
\* sum to total
C33_RoundTrip ==
    \A n \in 1..(stsize - 1) :
        Halves(n) =>
            LET head == Bytes(stlog[1].slice, stsize)
            IN /\ head \o Body = Span(0, stsize - 1)
               /\ \A i \in 1..Len(head) : \A j \in 1..Len(Body) : head[i] # Body[j]
               /\ ContentLength(stlog[1]) + ContentLength(stctx) = stsize

\* a file of 3 bytes was fetched as byte 0 and then bytes 1 and 2
C33_Witness ==
    /\ stsize = 3
    /\ Halves(1)
    /\ stlog[1].status = 206
    /\ stctx.status = 206
    /\ Bytes(stlog[1].slice, stsize) = <<0>>
    /\ Body = <<1, 2>>

\* C39: every 206 of send has 0 <= start <= end <= total - 1 in its
\* Content-Range and Content-Length = end - start + 1 <= total, and as many
\* bytes in its body as Content-Length says
C39_WithinFile ==
    Ranged /\ stctx.status = 206 =>
        /\ <<"Content-Range", <<"bytes", stctx.slice.start, stctx.slice.end, stsize>>>>
               \in stctx.set
        /\ 0 <= stctx.slice.start
        /\ stctx.slice.start <= stctx.slice.end
        /\ stctx.slice.end <= stsize - 1
        /\ ContentLength(stctx) = stctx.slice.end - stctx.slice.start + 1
        /\ ContentLength(stctx) <= stsize
        /\ ContentLength(stctx) = Len(Body)

(***************************************************************************)
(* ExecutionContext: properties                                            *)
(***************************************************************************)
\* the wrapped middleware found ctx.path with the base at its front
\* replaced by "/"
MountRebases ==
    \A k \in 1..Len(xruns) :
        IsPrefix(xconf.base, xruns[k].original) =>
            xruns[k].inner = <<"/">> \o SubSeq(xruns[k].original, Len(xconf.base) + 1,
                                               Len(xruns[k].original))

\* the continuation of the wrapped middleware found ctx.path as it was
MountContinues ==
    \A k \in 1..Len(xruns) : xruns[k].continued => xruns[k].cont = xruns[k].original

\* a wrapped middleware that came to its end without calling its
\* continuation leaves ctx.path as it was
MountFinishes ==
    xphase \in {"up", "done"} /\ xruns # <<>> /\ ~Last(xruns).continued =>
        xctx.path = Last(xruns).original

\* C34: a middleware wrapped by mount sees ctx.path with the base prefix
\* replaced by "/"; ctx.path is back to its value when the continuation of
\* the middleware runs, and also after the middleware has finished without
\* calling its continuation
C34_Mount == MountRebases /\ MountContinues /\ MountFinishes

\* C35: every middleware an app installs through its context, by use, get
\* or post, is inside the wrapper of the app, so ctx.handler is the name of
\* the app when the middleware starts
C35_Handler ==
    xconf.appname # "" =>
        /\ \A r \in 1..Len(xrouter) : xrouter[r].named
        /\ \A k \in 1..Len(xruns) : xruns[k].handler = xconf.appname

\* C37: every route registered through the context, by use, get or post, is
\* installed at the path resolveReqPath makes of the base and the path given
C37_UnderBase ==
    \A r \in 1..Len(xrouter) :
        /\ xrouter[r].path = resolveReqPath(xconf.base, xrouter[r].arg)
        /\ IsPrefix(Trimmed(xconf.base), xrouter[r].path)

(***************************************************************************)
(* Router.parseSiteConfig: properties                                      *)
(***************************************************************************)
\* the layers of the router at one path, in the order of their installation
RECURSIVE LayersAt(_, _)
LayersAt(layers, path) ==
    IF layers = <<>> THEN <<>>
    ELSE (IF Head(layers).path = path THEN <<Head(layers)>> ELSE <<>>)
         \o LayersAt(Tail(layers), path)

\* for each middleware of a request's chain, the path of the layer it is of
RECURSIVE Origins(_, _)
Origins(layers, path) ==
    IF layers = <<>> THEN <<>>
    ELSE (IF PathMatches(Head(layers).path, path)
          THEN [i \in 1..Len(LayerMws(Head(layers))) |-> Head(layers).path]
          ELSE <<>>)
         \o Origins(Tail(layers), path)

\* the entries the loop has taken
Parsed == {sconf[i] : i \in 1..parsed}

\* C36: for every entry taken, the layers at its path begin with its
\* rewrites in the declared order, and only then comes its redirect or its
\* stack; an entry with a redirect has no handler installed; and in a request
\* every rewrite of a path is entered before the redirect or a handler of it
C36_RewritesFirst ==
    /\ \A conf \in Parsed :
          LET path == RoutePathOf(conf.key)
              at == LayersAt(router, path)
              n == Len(conf.rewrite)
          IN /\ Len(at) >= n
             /\ SubSeq(at, 1, n) = RewriteLayers(path, conf.rewrite)
             /\ \A k \in (n + 1)..Len(at) : at[k].kind # "rewrite"
             /\ conf.redirect # "" =>
                   /\ ~CalledFor(path)
                   /\ \A k \in 1..Len(at) : at[k].kind # "stack"
                   /\ Len(at) = n + 1
                   /\ at[n + 1].kind = "redirect"
             /\ conf.redirect = "" =>
                   ModsOf(calls, path, TRUE) = conf.handlers
    /\ pphase # "build" =>
          LET from == Origins(router, entry)
          IN \A k \in 1..Len(chain) : \A l \in 1..Len(chain) :
                /\ from[k] = from[l]
                /\ chain[k].kind = "rewrite"
                /\ chain[l].kind # "rewrite"
                /\ Ran(l)
                => k < l /\ Ran(k)

\* the entry "^/" with two rewrites and a redirect that also names a handler
\* was parsed, and a request went through both rewrites into the redirect
C36_Witness ==
    /\ Len(sconf) = 1
    /\ sconf[1].key = "^/"
    /\ Len(sconf[1].rewrite) = 2
    /\ sconf[1].rewrite[1] # sconf[1].rewrite[2]
    /\ sconf[1].redirect # ""
    /\ sconf[1].handlers # <<>>
    /\ pphase = "done"
    /\ Len(chain) = 3
    /\ Len(seen) = 3
    /\ pctx.status = 302
    /\ calls = <<>>

(***************************************************************************)
(* Statistics: properties                                                  *)
(***************************************************************************)
\* no entry of the list is older than the period
Pruned(last, period) == \A i \in 1..Len(last) : clock - last[i] <= period * Millis

\* the entries of the list are in non-decreasing order
Ordered(last) == \A i \in 1..Len(last) : \A j \in i..Len(last) : last[i] <= last[j]

\* C40: after every record() at time now, with the earlier calls at times
\* not after it, each of last1min, last5min and last15min holds only times
\* t with now - t <= its period, in non-decreasing order
C40_Pruned ==
    count > 0 =>
        /\ Pruned(last1min, Period1min) /\ Ordered(last1min)
        /\ Pruned(last5min, Period5min) /\ Ordered(last5min)
        /\ Pruned(last15min, Period15min) /\ Ordered(last15min)

(***************************************************************************)
(* proxy and upgrade()                                                     *)
(***************************************************************************)
\* C38: when the WebSocket branch of the proxy handler has called next,
\* upgrade() has not been called for the session: the response is still
\* buffering
C38_NextBeforeUpgrade ==
    pxctx.handler = "ProxyWS" /\ pxnexts > 0 => upg.calls = 0

(***************************************************************************)
(* Specifications                                                          *)
(***************************************************************************)
\* one invocation of a composed stack
Init == ComposeInit(MaxLen, {1}) /\ SiteInit /\ PathInit /\ RespInit /\ ProxyOff /\ StaticOff /\ ExecOff /\ ConfigOff /\ StatOff
Next == ComposeNext
Spec == Init /\ [][Next]_vars

\* two invocations of the same composed stack, interleaved
InitConc == ComposeInit(ConcLen, {1, 2}) /\ SiteInit /\ PathInit /\ RespInit /\ ProxyOff /\ StaticOff /\ ExecOff /\ ConfigOff /\ StatOff
SpecConc == InitConc /\ [][Next]_vars

\* a SiteRouter is built and serves one request
InitSite == ComposeIdle /\ SiteInit /\ PathInit /\ RespInit /\ ProxyOff /\ StaticOff /\ ExecOff /\ ConfigOff /\ StatOff
NextSite == SiteNext
SpecSite == InitSite /\ [][NextSite]_vars

\* a PathRouter is given handler modules and serves one request
InitPath == ComposeIdle /\ SiteInit /\ PathInit /\ RespInit /\ ProxyOff /\ StaticOff /\ ExecOff /\ ConfigOff /\ StatOff
NextStacks == StacksNext
SpecStacks == InitPath /\ [][NextStacks]_vars

\* a PathRouter is given rewrites, redirects and modules and serves one request
NextRules == RulesNext
SpecRules == InitPath /\ [][NextRules]_vars

\* an UpgradableResponse is written, ended and upgraded
InitResp == ComposeIdle /\ SiteInit /\ PathInit /\ RespInit /\ ProxyOff /\ StaticOff /\ ExecOff /\ ConfigOff /\ StatOff
NextResp == RespNext
SpecResp == InitResp /\ [][NextResp]_vars

\* the proxy handler serves one request, over HTTP or as a WebSocket bridge
InitProxy == ComposeIdle /\ SiteInit /\ PathInit /\ RespInit /\ ProxyInit /\ StaticOff /\ ExecOff /\ ConfigOff /\ StatOff
NextProxy == ProxyNext
SpecProxy == InitProxy /\ [][NextProxy]_vars
\* the same, with WebSockets that complete a close they started
SpecProxyFair == SpecProxy /\ ProxyFairness

\* the proxy handler serves one request over HTTP
InitProxyHttp == ComposeIdle /\ SiteInit /\ PathInit /\ RespInit /\ ProxyHttpInit /\ StaticOff /\ ExecOff /\ ConfigOff /\ StatOff
NextProxyHttp == ProxyHttpNext
SpecProxyHttp == InitProxyHttp /\ [][NextProxyHttp]_vars

\* the static module, or send through an ExecutionContext, serves one request
\* a module or an app registers routes through its ExecutionContext and a
\* request runs through them
InitExec ==
    /\ ComposeIdle /\ SiteInit /\ PathInit /\ RespInit /\ ProxyOff /\ StaticOff
    /\ ExecInit /\ ConfigOff /\ StatOff
NextExec == ExecNext
SpecExec == InitExec /\ [][NextExec]_vars

\* a site's config is parsed into its PathRouter, which then takes a request
InitConfig ==
    /\ ComposeIdle /\ SiteInit /\ PathInit /\ RespInit /\ ProxyOff /\ StaticOff
    /\ ExecOff /\ ConfigInit /\ StatOff
NextConfig == ConfigNext
SpecConfig == InitConfig /\ [][NextConfig]_vars

\* requests are recorded in a Statistics as time goes by
InitStat ==
    /\ ComposeIdle /\ SiteInit /\ PathInit /\ RespInit /\ ProxyOff /\ StaticOff
    /\ ExecOff /\ ConfigOff /\ StatInit
NextStat == StatNext
SpecStat == InitStat /\ [][NextStat]_vars

InitStatic == ComposeIdle /\ SiteInit /\ PathInit /\ RespInit /\ ProxyOff /\ StaticInit /\ ExecOff /\ ConfigOff /\ StatOff
NextStatic == StaticNext
SpecStatic == InitStatic /\ [][NextStatic]_vars

====
